---- MODULE Spec2Model ----
(***************************************************************************)
(* A model of src/app.js: the expression enumerator generateEnumerations   *)
(* (cost-indexed memoised enumeration, unary/binary expansion with         *)
(* pruning, bounded top-K heap with value dedup, wall-clock budget).       *)
(*                                                                         *)
(* Numbers.  JavaScript numbers are IEEE-754 doubles.  The model keeps     *)
(* the format (sign, significand, binary exponent, signed zero, +-Inf,     *)
(* NaN, round-to-nearest-even, exponent range of a double with gradual     *)
(* underflow down to 2^-1074) and narrows the significand from 53 bits to  *)
(* P bits, so that every intermediate product fits the model checker's     *)
(* integers.  Integers below 2^P and their sums, differences and products  *)
(* are exact, as they are in a double; quotients, Math.exp and Math.log    *)
(* are correctly rounded to P bits.                                        *)
(*                                                                         *)
(* Text.  A string is a sequence of one-character strings, so that         *)
(* startsWith / endsWith / slice / trim and the code-unit order of the     *)
(* relational operators on strings are computed, not assumed.              *)
(*                                                                         *)
(* Scope.  Of the unary functions the model has exp, ln and unary minus;   *)
(* of the binary operators +, -, * and /.  sin, cos, tan, sqrt and the     *)
(* power operator are switched off in every configuration of the model.    *)
(***************************************************************************)
EXTENDS Integers, Sequences, FiniteSets, TLC

(***************************************************************************)
(* Bounds of the model.                                                    *)
(***************************************************************************)
\* significand width of the model's floating-point numbers
P == 13
\* largest integer atom count N of a configuration
MaxN == 2
\* largest cost ceiling max_cost of a configuration
MaxCost == 3
\* largest keep_top of a configuration
MaxKeep == 2
\* largest max_seconds of a configuration, in clock ticks
MaxSeconds == 1
\* the most clock ticks by which the reading of the clock at the end of a
\* level is above max_seconds
MaxOverrun == 4

(***************************************************************************)
(* Floating point.                                                         *)
(* A number is [k, s, m, e]: k = "fin" | "inf" | "nan"; s = 1 for a set    *)
(* sign bit; a finite number is (-1)^s * m * 2^e with m = 0 (zero, e = 0), *)
(* or 2^(P-1) <= m < 2^P and e >= -1074 (normal), or 0 < m < 2^(P-1) and   *)
(* e = -1074 (subnormal: a multiple of 2^-1074 below 2^(P-1-1074)).  The   *)
(* arithmetic is written as functions on Float and on the integers.        *)
(***************************************************************************)
Float == [k : {"fin", "inf", "nan"}, s : {0, 1}, m : Nat, e : Int]

Pow2[n \in Int] == IF n <= 0 THEN 1 ELSE 2 * Pow2[n - 1]

BitLen[a \in Nat] == IF a = 0 THEN 0 ELSE 1 + BitLen[a \div 2]

\* largest binary exponent of a finite double (values are < 2^1024)
EMax == 1023
\* binary exponent of the smallest positive double, 2^-1074
EMin == 0 - 1074

NaN == [k |-> "nan", s |-> 0, m |-> 0, e |-> 0]
Inf(s) == [k |-> "inf", s |-> s, m |-> 0, e |-> 0]
Zero(s) == [k |-> "fin", s |-> s, m |-> 0, e |-> 0]

\* a significand and exponent within the format, with overflow to Infinity
\* at the upper limit of the double format
Pack(s, m, e) ==
  IF m = 0 THEN Zero(s)
  ELSE IF e + BitLen[m] - 1 > EMax THEN Inf(s)
  ELSE [k |-> "fin", s |-> s, m |-> m, e |-> e]

\* (-1)^s * M * 2^E rounded to a multiple of 2^e, ties to even, where 2^e
\* is the unit of a P-bit significand or, below that, 2^-1074
Round[s \in {0, 1}, M \in Nat, E \in Int] ==
  IF M = 0 THEN Zero(s)
  ELSE LET b == BitLen[M]
           e == IF E + b - P > EMin THEN E + b - P ELSE EMin
       IN IF e <= E THEN Pack(s, M * Pow2[E - e], e)
          ELSE LET sh == e - E IN
               IF sh > b THEN Zero(s)
               ELSE LET q == M \div Pow2[sh]
                        r == M % Pow2[sh]
                        half == Pow2[sh - 1]
                        q1 == IF r > half \/ (r = half /\ q % 2 = 1) THEN q + 1 ELSE q
                    IN IF q1 = Pow2[P] THEN Pack(s, Pow2[P - 1], e + 1)
                       ELSE Pack(s, q1, e)

\* Number(n) of an integer n
FromInt[n \in Int] == IF n < 0 THEN Round[1, 0 - n, 0] ELSE Round[0, n, 0]

Xor(a, b) == IF a = b THEN 0 ELSE 1

\* typeof x === 'number' && isFinite(x)
isFiniteNumber(x) == x.k = "fin"

IsZero(x) == x.k = "fin" /\ x.m = 0

\* unary minus of a number
FNeg[a \in Float] == IF a.k = "nan" THEN NaN ELSE [a EXCEPT !.s = 1 - a.s]

\* Math.abs
FAbs[a \in Float] == IF a.k = "nan" THEN NaN ELSE [a EXCEPT !.s = 0]

\* a + b of two finite numbers
FAdd[a \in Float, b \in Float] ==
  IF a.m = 0 /\ b.m = 0 THEN Zero(IF a.s = 1 /\ b.s = 1 THEN 1 ELSE 0)
  ELSE IF a.m = 0 THEN b
  ELSE IF b.m = 0 THEN a
  ELSE LET hi == IF a.e >= b.e THEN a ELSE b
           lo == IF a.e >= b.e THEN b ELSE a
           d == hi.e - lo.e
       IN IF d > P + 2 THEN hi
          ELSE LET sm == (IF hi.s = 1 THEN 0 - hi.m ELSE hi.m) * Pow2[d]
                         + (IF lo.s = 1 THEN 0 - lo.m ELSE lo.m)
               IN IF sm = 0 THEN Zero(0)
                  ELSE IF sm < 0 THEN Round[1, 0 - sm, lo.e]
                  ELSE Round[0, sm, lo.e]

\* a - b of two finite numbers
FSub[a \in Float, b \in Float] == FAdd[a, FNeg[b]]

\* a * b of two finite numbers
FMul[a \in Float, b \in Float] == Round[Xor(a.s, b.s), a.m * b.m, a.e + b.e]

\* a / b of two finite numbers, b not zero
FDiv[a \in Float, b \in Float] ==
  IF a.m = 0 THEN Zero(Xor(a.s, b.s))
  ELSE LET up == P - BitLen[a.m]
           num == a.m * Pow2[up] * Pow2[P + 2]
           q == num \div b.m
           sticky == IF num % b.m = 0 THEN 0 ELSE 1
       IN Round[Xor(a.s, b.s), 2 * q + sticky, a.e - up - b.e - (P + 3)]

\* |a| < |b| for numbers that are not NaN
MagLt[a \in Float, b \in Float] ==
  IF a.k = "inf" THEN FALSE
  ELSE IF b.k = "inf" THEN TRUE
  ELSE IF b.m = 0 THEN FALSE
  ELSE IF a.m = 0 THEN TRUE
  ELSE a.e < b.e \/ (a.e = b.e /\ a.m < b.m)

IsNegative(a) == a.s = 1 /\ ~IsZero(a)

\* a < b
FLt[a \in Float, b \in Float] ==
  IF a.k = "nan" \/ b.k = "nan" THEN FALSE
  ELSE IF IsNegative(a) /\ ~IsNegative(b) THEN TRUE
  ELSE IF ~IsNegative(a) /\ IsNegative(b) THEN FALSE
  ELSE IF IsNegative(a) THEN MagLt[b, a]
  ELSE MagLt[a, b]

\* a === b
FEq[a \in Float, b \in Float] ==
  IF a.k = "nan" \/ b.k = "nan" THEN FALSE
  ELSE IF IsZero(a) /\ IsZero(b) THEN TRUE
  ELSE a = b

\* a > b
FGt[a \in Float, b \in Float] == FLt[b, a]

\* a <= b
FLe[a \in Float, b \in Float] == FLt[a, b] \/ FEq[a, b]

(***************************************************************************)
(* Natural numbers of any size, for the intermediate values of Math.exp    *)
(* and Math.log and of the conversion of decimal text: a sequence of limbs *)
(* below 2^15, the least significant limb first; <<>> is 0.                *)
(***************************************************************************)
\* 2^15
Limb == 32768

Big == Seq(Nat)

\* the limb of index i of a
LimbAt(a, i) == IF i >= 1 /\ i <= Len(a) THEN a[i] ELSE 0

\* a without leading zero limbs
BigNorm[a \in Big] ==
  SubSeq(a, 1, CHOOSE n \in 0..Len(a) :
                 /\ n = 0 \/ a[n] # 0
                 /\ \A k \in (n + 1)..Len(a) : a[k] = 0)

\* n as limbs, for n below 2^31
BigFromNat[n \in Nat] == BigNorm[<<n % Limb, (n \div Limb) % Limb, n \div (Limb * Limb)>>]

\* the value of a, for a below 2^31
BigToNat[a \in Big] == LimbAt(a, 1) + Limb * LimbAt(a, 2) + Limb * Limb * LimbAt(a, 3)

\* the limbs lo .. hi of a + b, behind the limbs st[1] with the carry
\* st[2]; the range is halved, so that the depth is the logarithm of its
\* length
BigAddFrom[a \in Big, b \in Big, st \in Big \X Nat, lo \in Nat, hi \in Nat] ==
  IF lo > hi THEN st
  ELSE IF lo = hi
  THEN <<Append(st[1], (LimbAt(a, lo) + LimbAt(b, lo) + st[2]) % Limb),
         (LimbAt(a, lo) + LimbAt(b, lo) + st[2]) \div Limb>>
  ELSE BigAddFrom[a, b, BigAddFrom[a, b, st, lo, (lo + hi) \div 2], (lo + hi) \div 2 + 1, hi]

\* a + b
BigAdd[a \in Big, b \in Big] ==
  BigNorm[BigAddFrom[a, b, <<<<>>, 0>>, 1,
                     (IF Len(a) > Len(b) THEN Len(a) ELSE Len(b)) + 1][1]]

\* the limbs lo .. hi of a - b, behind the limbs st[1] with the borrow st[2]
BigSubFrom[a \in Big, b \in Big, st \in Big \X Nat, lo \in Nat, hi \in Nat] ==
  IF lo > hi THEN st
  ELSE IF lo = hi
  THEN <<Append(st[1], (LimbAt(a, lo) + Limb - LimbAt(b, lo) - st[2]) % Limb),
         IF LimbAt(a, lo) >= LimbAt(b, lo) + st[2] THEN 0 ELSE 1>>
  ELSE BigSubFrom[a, b, BigSubFrom[a, b, st, lo, (lo + hi) \div 2], (lo + hi) \div 2 + 1, hi]

\* a - b for a >= b
BigSub[a \in Big, b \in Big] == BigNorm[BigSubFrom[a, b, <<<<>>, 0>>, 1, Len(a)][1]]

\* the limbs lo .. hi of a * k, behind the limbs st[1] with the carry st[2]
BigMulFrom[a \in Big, k \in Nat, st \in Big \X Nat, lo \in Nat, hi \in Nat] ==
  IF lo > hi THEN st
  ELSE IF lo = hi
  THEN <<Append(st[1], (LimbAt(a, lo) * k + st[2]) % Limb),
         (LimbAt(a, lo) * k + st[2]) \div Limb>>
  ELSE BigMulFrom[a, k, BigMulFrom[a, k, st, lo, (lo + hi) \div 2], (lo + hi) \div 2 + 1, hi]

\* a * k + c for k <= 2^15 and c < 2^15
BigMulC[a \in Big, k \in Nat, c \in Nat] ==
  BigNorm[BigMulFrom[a, k, <<<<>>, c>>, 1, Len(a) + 1][1]]

\* a * b
BigMul[a \in Big, b \in Big] ==
  IF b = <<>> THEN <<>>
  ELSE BigAdd[BigMulC[a, Head(b), 0], <<0>> \o BigMul[a, Tail(b)]]

\* long division of the limbs lo .. hi of a by d, from the highest limb
\* down, given the quotient st[1] and the remainder st[2] of the limbs above
BigDivFrom[a \in Big, d \in Nat, st \in Big \X Nat, lo \in Nat, hi \in Nat] ==
  IF lo > hi THEN st
  ELSE IF lo = hi
  THEN <<<<(st[2] * Limb + a[lo]) \div d>> \o st[1], (st[2] * Limb + a[lo]) % d>>
  ELSE BigDivFrom[a, d, BigDivFrom[a, d, st, (lo + hi) \div 2 + 1, hi], lo, (lo + hi) \div 2]

\* quotient q and remainder r of a by d, for 0 < d <= 2^15
BigDivMod[a \in Big, d \in Nat] ==
  [q |-> BigDivFrom[a, d, <<<<>>, 0>>, 1, Len(a)][1],
   r |-> BigDivFrom[a, d, <<<<>>, 0>>, 1, Len(a)][2]]

\* a * 2^n
BigShl[a \in Big, n \in Nat] ==
  [i \in 1..(n \div 15) |-> 0]
  \o [i \in 1..(Len(a) + 1) |->
        (LimbAt(a, i) % Pow2[15 - (n % 15)]) * Pow2[n % 15]
        + LimbAt(a, i - 1) \div Pow2[15 - (n % 15)]]

\* a \div 2^n
BigShr[a \in Big, n \in Nat] ==
  [i \in 1..(Len(a) - n \div 15) |->
     LimbAt(a, i + n \div 15) \div Pow2[n % 15]
     + (LimbAt(a, i + n \div 15 + 1) % Pow2[n % 15]) * Pow2[15 - (n % 15)]]

\* -1, 0, 1 as a < b, a = b, a > b: the highest limb that differs decides
BigCmp[a \in Big, b \in Big] ==
  LET D == {i \in 1..(Len(a) + Len(b)) : LimbAt(a, i) # LimbAt(b, i)} IN
  IF D = {} THEN 0
  ELSE IF \E i \in D : (\A j \in D : j <= i) /\ LimbAt(a, i) < LimbAt(b, i) THEN 0 - 1
  ELSE 1

\* the number of bits of a
BigBitLen[a \in Big] ==
  IF BigNorm[a] = <<>> THEN 0
  ELSE 15 * (Len(BigNorm[a]) - 1) + BitLen[BigNorm[a][Len(BigNorm[a])]]

\* (-1)^s * a * 2^E rounded as Round does: the leading 29 bits of a and a
\* bit that is set when a bit below them is
RoundBig[s \in {0, 1}, a \in Big, E \in Int] ==
  IF BigBitLen[a] <= 30 THEN Round[s, BigToNat[BigNorm[a]], E]
  ELSE LET sh == BigBitLen[a] - 29
           top == BigShr[a, sh]
           sticky == IF BigCmp[BigShl[top, sh], a] = 0 THEN 0 ELSE 1
       IN Round[s, 2 * BigToNat[BigNorm[top]] + sticky, E + sh - 1]

(***************************************************************************)
(* Math.exp and Math.log, correctly rounded to P bits.  Both work on       *)
(* fixed-point values with FxBits fraction bits (Math.log: 15 more for     *)
(* the sum), reduce the range by powers of two and sum a series to below   *)
(* 2^-FxBits; the error of the sum is far below the distance of exp(x)     *)
(* and ln(x) from the nearest rounding boundary for every x of P bits.     *)
(* exp(0) = 1 and ln(1) = 0 are exact.                                     *)
(***************************************************************************)
\* fraction bits of the fixed-point intermediate values
FxBits == 45

\* 1 in fixed point
FxOne == <<0, 0, 0, 1>>

\* floor(ln(2) * 2^45)
FxLn2 == <<31289, 1533, 22713>>

\* floor(ln(2) * 2^60)
FxLn2Wide == <<30618, 31289, 1533, 22713>>

\* floor(|x| * 2^FxBits) of a finite x with |x| < 1024
ToFix[x \in Float] ==
  IF x.e + FxBits >= 0 THEN BigShl[BigFromNat[x.m], x.e + FxBits]
  ELSE IF 0 - (x.e + FxBits) > P THEN <<>>
  ELSE BigFromNat[x.m \div Pow2[0 - (x.e + FxBits)]]

\* acc plus the terms r^i / i! of index n - 1 .. 18, given the term t of
\* index n - 1
ExpSeries[r \in Big, t \in Big, n \in Nat, acc \in Big] ==
  IF n > 18 THEN BigAdd[acc, t]
  ELSE ExpSeries[r, BigDivMod[BigShr[BigMul[t, r], FxBits], n].q, n + 1, BigAdd[acc, t]]

\* floor(X / ln 2), from the estimate k0 that is off by one at most
ExpQuotient[X \in Big, k0 \in Nat] ==
  IF BigCmp[BigMulC[FxLn2, k0, 0], X] = 1 THEN k0 - 1
  ELSE IF BigCmp[BigMulC[FxLn2, k0 + 1, 0], X] <= 0 THEN k0 + 1
  ELSE k0

\* exp(+-X) with k = floor(X / ln 2): 2^k * exp(X - k ln 2), or
\* 2^-k1 * exp(k1 ln 2 - X) with k1 = ceiling(X / ln 2)
ExpReduced[s \in {0, 1}, X \in Big, k \in Nat] ==
  IF s = 0
  THEN RoundBig[0, ExpSeries[BigSub[X, BigMulC[FxLn2, k, 0]], FxOne, 1, <<>>], k - FxBits]
  ELSE IF BigCmp[BigMulC[FxLn2, k, 0], X] = 0
  THEN RoundBig[0, FxOne, 0 - k - FxBits]
  ELSE RoundBig[0, ExpSeries[BigSub[BigMulC[FxLn2, k + 1, 0], X], FxOne, 1, <<>>],
                0 - (k + 1) - FxBits]

\* the argument in fixed point and the estimate of its quotient by ln 2
\* (45426 is ln 2 in units of 2^-16)
ExpFixed[s \in {0, 1}, X \in Big] ==
  ExpReduced[s, X, ExpQuotient[X, BigToNat[BigNorm[BigShr[X, FxBits - 16]]] \div 45426]]

\* exp(x) of a finite x, correctly rounded
ExpRounded[x \in Float] ==
  IF x.m = 0 THEN FromInt[1]
  ELSE IF x.e + BitLen[x.m] > 10 THEN (IF x.s = 0 THEN Inf(0) ELSE Zero(0))
  ELSE ExpFixed[x.s, ToFix[x]]

\* acc plus the terms t^(2j) / (2j + 1) of index i .. 11, given pw = T2^i
LogSeries[T2 \in Big, pw \in Big, i \in Nat, acc \in Big] ==
  IF i >= 12 THEN acc
  ELSE LogSeries[T2, BigShr[BigMul[pw, T2], FxBits], i + 1,
                 BigAdd[acc, BigDivMod[pw, 2 * i + 1].q]]

\* k ln 2 + sn * LF, with KL = |k| ln 2 and LF = |ln f|
LogSum[k \in Int, sn \in {0, 1}, KL \in Big, LF \in Big] ==
  IF (k >= 0 /\ sn = 0) \/ BigNorm[LF] = <<>>
  THEN RoundBig[IF k < 0 THEN 1 ELSE 0, BigAdd[KL, LF], 0 - (FxBits + 15)]
  ELSE IF k <= 0 /\ sn = 1 THEN RoundBig[1, BigAdd[KL, LF], 0 - (FxBits + 15)]
  ELSE IF BigCmp[KL, LF] >= 0
  THEN RoundBig[IF k < 0 /\ BigCmp[KL, LF] > 0 THEN 1 ELSE 0, BigSub[KL, LF],
                0 - (FxBits + 15)]
  ELSE RoundBig[sn, BigSub[LF, KL], 0 - (FxBits + 15)]

\* ln(2^k * f) for f = (d + n) / (d - n): ln f = 2 t (1 + t^2/3 + t^4/5 ...)
\* with t = n / d; an is |n|
LogReduced[k \in Int, sn \in {0, 1}, an \in Nat, d \in Nat] ==
  LogSum[k, sn,
         BigMulC[FxLn2Wide, IF k < 0 THEN 0 - k ELSE k, 0],
         BigDivMod[
           <<0>> \o BigMulC[
             LogSeries[BigDivMod[BigDivMod[BigShl[BigFromNat[an * an], FxBits], d].q, d].q,
                       FxOne, 0, <<>>],
             2 * an, 0],
           d].q]

\* ln(m1 * 2^e1) for a significand m1 of P bits: f = m1 / 2^j in [3/4, 3/2)
LogNormal[m1 \in Nat, e1 \in Int] ==
  IF 2 * m1 < 3 * Pow2[P - 1]
  THEN LogReduced[e1 + P - 1, 0, m1 - Pow2[P - 1], m1 + Pow2[P - 1]]
  ELSE LogReduced[e1 + P, 1, Pow2[P] - m1, m1 + Pow2[P]]

\* ln(x) of a finite x > 0, correctly rounded
LogRounded[x \in Float] ==
  LogNormal[x.m * Pow2[P - BitLen[x.m]], x.e - (P - BitLen[x.m])]

\* arguments that come again and again in the runs: the numbers 1 .. 4 and
\* 355/113, and what -, exp and ln make of them
FrequentArgs ==
  LET A == {FromInt[n] : n \in 1..4} \cup {FDiv[FromInt[355], FromInt[113]]}
  IN A \cup {FNeg[x] : x \in A} \cup {ExpRounded[x] : x \in A} \cup {LogRounded[x] : x \in A}

\* the pairs <<x, exp(x)>> and <<x, ln(x)>> of the frequent arguments, which
\* are computed once
ExpTable == {<<x, ExpRounded[x]>> : x \in FrequentArgs}

LogTable == {<<x, LogRounded[x]>> : x \in {y \in FrequentArgs : y.s = 0 /\ y.m > 0}}

\* Math.exp(x) of a finite x
MathExp[x \in Float] ==
  IF x \in FrequentArgs THEN (CHOOSE p \in ExpTable : p[1] = x)[2] ELSE ExpRounded[x]

\* Math.log(x) of a finite x > 0
MathLog[x \in Float] ==
  IF x \in FrequentArgs THEN (CHOOSE p \in LogTable : p[1] = x)[2] ELSE LogRounded[x]

(***************************************************************************)
(* key_repr: Number(x).toPrecision(17).  Seventeen significant digits      *)
(* identify a finite double, except that toPrecision prints no sign for    *)
(* -0; the key is therefore the number itself with the sign of zero        *)
(* dropped, and the one key "nan" for every non-finite number.             *)
(***************************************************************************)
key_repr(x) ==
  IF ~isFiniteNumber(x) THEN <<"nan">>
  ELSE IF x.m = 0 THEN <<0, 0, 0>>
  ELSE <<x.s, x.m, x.e>>

(***************************************************************************)
(* Text.  A text is a sequence of UTF-16 code units.  A code unit is the   *)
(* one-character string when it is printable ASCII other than the grave    *)
(* accent, "\t", "\n", "\f" and "\r" for those four, and "\\u" with its    *)
(* four hexadecimal digits in lower case for every other one.              *)
(***************************************************************************)
\* the code units 32 .. 126 (96 is the grave accent)
Printable ==
  <<
    " ", "!", "\"", "#", "$", "%", "&", "'", "(", ")", "*", "+",
    ",", "-", ".", "/", "0", "1", "2", "3", "4", "5", "6", "7",
    "8", "9", ":", ";", "<", "=", ">", "?", "@", "A", "B", "C",
    "D", "E", "F", "G", "H", "I", "J", "K", "L", "M", "N", "O",
    "P", "Q", "R", "S", "T", "U", "V", "W", "X", "Y", "Z", "[",
    "\\", "]", "^", "_", "\\u0060", "a", "b", "c", "d", "e", "f", "g",
    "h", "i", "j", "k", "l", "m", "n", "o", "p", "q", "r", "s",
    "t", "u", "v", "w", "x", "y", "z", "{", "|", "}", "~"
  >>

\* the code of a printable character
CodeOf == [c \in {Printable[i] : i \in 1..95} |-> 31 + CHOOSE i \in 1..95 : Printable[i] = c]

\* String.fromCharCode(n)
CodeUnit(n) ==
  IF n >= 32 /\ n <= 126 THEN Printable[n - 31]
  ELSE IF n = 9 THEN "\t"
  ELSE IF n = 10 THEN "\n"
  ELSE IF n = 12 THEN "\f"
  ELSE IF n = 13 THEN "\r"
  ELSE LET HexChar(d) == IF d < 10 THEN Printable[d + 17] ELSE Printable[d + 56]
       IN "\\u" \o HexChar(n \div 4096) \o HexChar((n \div 256) % 16)
            \o HexChar((n \div 16) % 16) \o HexChar(n % 16)

\* c.charCodeAt(0)
CharCode(c) ==
  IF c \in DOMAIN CodeOf THEN CodeOf[c]
  ELSE IF c = "\t" THEN 9
  ELSE IF c = "\n" THEN 10
  ELSE IF c = "\f" THEN 12
  ELSE IF c = "\r" THEN 13
  ELSE CHOOSE n \in 0..65535 : CodeUnit(n) = c

\* s[i - 1], and "" behind the end of s
charAt(s, i) == IF i >= 1 /\ i <= Len(s) THEN s[i] ELSE ""

\* the value of the digit c in the radix, -1 when c is no such digit
digitOf(c, radix) ==
  LET d == IF c \notin DOMAIN CodeOf THEN 0 - 1
           ELSE IF CodeOf[c] >= 48 /\ CodeOf[c] <= 57 THEN CodeOf[c] - 48
           ELSE IF CodeOf[c] >= 97 /\ CodeOf[c] <= 102 THEN CodeOf[c] - 87
           ELSE IF CodeOf[c] >= 65 /\ CodeOf[c] <= 70 THEN CodeOf[c] - 55
           ELSE 0 - 1
  IN IF d < radix THEN d ELSE 0 - 1

\* white space and line terminators of ECMAScript (String.prototype.trim,
\* Number(string))
StrWhiteSpace ==
  {" ", "\t", "\n", "\f", "\r"}
  \cup {CodeUnit(n) : n \in {11, 160, 5760, 8232, 8233, 8239, 8287, 12288, 65279}}
  \cup {CodeUnit(n) : n \in 8192..8202}

RECURSIVE StrLt(_, _)
\* a < b on strings: the order of the code units, a proper prefix first
StrLt(a, b) ==
  IF b = <<>> THEN FALSE
  ELSE IF a = <<>> THEN TRUE
  ELSE IF CharCode(Head(a)) # CharCode(Head(b))
       THEN CharCode(Head(a)) < CharCode(Head(b))
  ELSE StrLt(Tail(a), Tail(b))

\* a > b on strings
StrGt(a, b) == StrLt(b, a)

startsWith(s, p) == Len(s) >= Len(p) /\ SubSeq(s, 1, Len(p)) = p

endsWith(s, p) == Len(s) >= Len(p) /\ SubSeq(s, Len(s) - Len(p) + 1, Len(s)) = p

\* String.prototype.trim
trim[s \in Seq(STRING)] ==
  IF \A k \in 1..Len(s) : s[k] \in StrWhiteSpace THEN <<>>
  ELSE SubSeq(s,
              CHOOSE k \in 1..Len(s) :
                s[k] \notin StrWhiteSpace /\ \A m \in 1..(k - 1) : s[m] \in StrWhiteSpace,
              CHOOSE k \in 1..Len(s) :
                s[k] \notin StrWhiteSpace /\ \A m \in (k + 1)..Len(s) : s[m] \in StrWhiteSpace)

\* s.slice(from, -1)
sliceToLast(s, from) == SubSeq(s, from + 1, Len(s) - 1)

DigitChar(d) == <<"0", "1", "2", "3", "4", "5", "6", "7", "8", "9">>[d + 1]

RECURSIVE NatToStr(_)
\* String(n) of an integer n >= 0
NatToStr(n) == IF n < 10 THEN <<DigitChar(n)>> ELSE NatToStr(n \div 10) \o <<DigitChar(n % 10)>>

\* is_direct_application(expr, funcName)
is_direct_application[expr \in Seq(STRING), funcName \in Seq(STRING)] ==
  IF expr = <<>> THEN FALSE
  ELSE LET s0 == trim[expr]
           in1 == trim[sliceToLast(s0, 1)]
           s1 == IF startsWith(s0, <<"(">>) /\ endsWith(s0, <<")">>) /\ in1 # <<>>
                 THEN in1 ELSE s0
           in2 == trim[sliceToLast(s1, 2)]
           s2 == IF startsWith(s1, <<"-", "(">>) /\ endsWith(s1, <<")">>) /\ in2 # <<>>
                 THEN in2 ELSE s1
       IN startsWith(s2, funcName \o <<"(">>) /\ endsWith(s2, <<")">>)

(***************************************************************************)
(* BinaryHeap.  data is the array this.data; the code's index i is the     *)
(* position i + 1 of the sequence.  A heap entry is [err, v, expr].        *)
(***************************************************************************)
\* (mutant) the comparator orders the heap with the best entry on top
cmpReversed(a, b) ==
  IF FLt[a.err, b.err] THEN 1
  ELSE IF FGt[a.err, b.err] THEN 0 - 1
  ELSE 0

\* the comparator given to the constructor: order by err
cmp(a, b) ==
  IF FLt[a.err, b.err] THEN 0 - 1
  ELSE IF FGt[a.err, b.err] THEN 1
  ELSE 0

At(a, i) == a[i + 1]

Swap(a, i, j) == [a EXCEPT ![i + 1] = a[j + 1], ![j + 1] = a[i + 1]]

RECURSIVE siftUp(_, _)
siftUp(a, i) ==
  IF i > 0
  THEN LET p == (i - 1) \div 2 IN
       IF cmp(At(a, i), At(a, p)) > 0 THEN siftUp(Swap(a, i, p), p) ELSE a
  ELSE a

RECURSIVE siftDown(_, _)
siftDown(a, i) ==
  LET n == Len(a)
      l == 2 * i + 1
      r == 2 * i + 2
      lg1 == IF l < n /\ cmp(At(a, l), At(a, i)) > 0 THEN l ELSE i
      largest == IF r < n /\ cmp(At(a, r), At(a, lg1)) > 0 THEN r ELSE lg1
  IN IF largest # i THEN siftDown(Swap(a, i, largest), largest) ELSE a

size(data) == Len(data)

peek(data) == data[1]

push(data, item) == siftUp(Append(data, item), Len(data))

\* the array after replace(item); replace returns peek(data)
replace(data, item) == siftDown([data EXCEPT ![1] = item], 0)

(***************************************************************************)
(* The final read-out: data.slice().sort((a,b) => a.err - b.err).  The     *)
(* sort is stable; the sign of a.err - b.err is that of the comparison of  *)
(* the two errors (Infinity - Infinity is NaN, which sort takes as 0).     *)
(***************************************************************************)
\* (mutant) the read-out sorts descending by err
sortCmpDescending(a, b) ==
  IF FLt[a.err, b.err] THEN 1
  ELSE IF FLt[b.err, a.err] THEN 0 - 1
  ELSE 0

\* the comparator of the final sort: the sign of a.err - b.err
sortCmp(a, b) ==
  IF FLt[a.err, b.err] THEN 0 - 1
  ELSE IF FLt[b.err, a.err] THEN 1
  ELSE 0

RECURSIVE InsertSorted(_, _)
\* x placed behind every element of the sorted s that does not follow it
InsertSorted(s, x) ==
  IF s = <<>> THEN <<x>>
  ELSE IF sortCmp(Head(s), x) <= 0 THEN <<Head(s)>> \o InsertSorted(Tail(s), x)
  ELSE <<x>> \o s

RECURSIVE sortByErr(_)
sortByErr(s) ==
  IF s = <<>> THEN <<>>
  ELSE InsertSorted(sortByErr(SubSeq(s, 1, Len(s) - 1)), s[Len(s)])

(***************************************************************************)
(* State of one call generateEnumerations(cfg, onProgress).                *)
(***************************************************************************)
VARIABLES
  cfg,             \* the configuration object
  clock,           \* nowSec() - start, in ticks of the clock
  pc,              \* position: [phase, a_cost, i, j, q]
  cost,            \* the driver's loop variable
  results,         \* the array results of the running enumerateCost(cost)
  memo,            \* the map memo: cost -> array of {v, expr}
  bestHeap,        \* bestHeap.data
  savedValues,     \* the set savedValues
  exprCountTotal,  \* the counter exprCountTotal
  stopped,         \* the flag stopped
  progress,        \* the calls of onProgress so far: [level, count]
  output,          \* the returned {results, stats}, NoOutput before the return
  considered,      \* history: the values considerValue has counted
  generated,       \* history: [op, l, r, expr] of every unary/binary candidate
  evicted,         \* history: the entries that replace has returned
  levelHeaps,      \* history: bestHeap.data at the end of each completed level
  firstText,       \* history: [k, expr] of the first counted call per key
  ui               \* the page: the state of the click handlers (see below)

vars == <<cfg, clock, pc, cost, results, memo, bestHeap, savedValues,
          exprCountTotal, stopped, progress, output, considered, generated,
          evicted, levelHeaps, firstText, ui>>

NoOutput == [none |-> TRUE]

\* the text of a function or operator name
ExpName == <<"e", "x", "p">>
LnName == <<"l", "n">>
NegName == <<"-">>

\* 1e-12, the epsilon of readConfig and the default of generateEnumerations
Epsilon12 ==
  LET e6 == FDiv[FromInt[1], FromInt[1000000]] IN FMul[e6, e6]

\* the named constant pi
PiConst == [name |-> <<"p", "i">>, value |-> FDiv[FromInt[355], FromInt[113]]]

\* the configurations of the model
Targets == {FromInt[0], FromInt[3]}
ConstLists == {<<>>, <<PiConst>>}
UnarySets == {{}, {"exp", "ln"}, {"neg"}, {"exp", "ln", "neg"}}
KeepSides == {"both", "greater", "less"}

MkCfg(n, t, cs, us, ks, mc, kt, ms) ==
  [N |-> n, target |-> t, consts |-> cs,
   use_exp |-> "exp" \in us, use_ln |-> "ln" \in us, use_neg |-> "neg" \in us,
   keep_side |-> ks, max_cost |-> mc, keep_top |-> kt, max_seconds |-> ms,
   epsilon |-> Epsilon12]

Configs ==
  { MkCfg(n, t, cs, us, ks, mc, kt, ms) :
      n \in 0..MaxN, t \in Targets, cs \in ConstLists, us \in UnarySets,
      ks \in KeepSides, mc \in 1..MaxCost, kt \in 1..MaxKeep,
      ms \in 0..MaxSeconds }

(***************************************************************************)
(* The locals of generateEnumerations set up from cfg.                     *)
(***************************************************************************)
\* Object.keys(unaryFuncs), in insertion order
unaryFuncNames ==
  (IF cfg.use_exp THEN <<ExpName>> ELSE <<>>)
  \o (IF cfg.use_ln THEN <<LnName>> ELSE <<>>)
  \o (IF cfg.use_neg THEN <<NegName>> ELSE <<>>)

\* unaryFuncs[fname](x)
unaryFuncs(fname, x) ==
  IF fname = ExpName THEN MathExp[x]
  ELSE IF fname = LnName THEN (IF FGt[x, Zero(0)] THEN MathLog[x] ELSE NaN)
  ELSE FNeg[x]

\* Object.keys(binaryOps), in insertion order
binaryOpNames == <<"+", "-", "*", "/">>

\* binaryOps[opname](a, b)
binaryOps(opname, a, b) ==
  IF opname = "+" THEN FAdd[a, b]
  ELSE IF opname = "-" THEN FSub[a, b]
  ELSE IF opname = "*" THEN FMul[a, b]
  ELSE IF FEq[b, Zero(0)] THEN NaN ELSE FDiv[a, b]

\* if (!isFiniteNumber(v)) return NaN; return v
finiteOrNaN[v \in Float] == IF ~isFiniteNumber(v) THEN NaN ELSE v

safeEvalFunc(fname, x) == finiteOrNaN[unaryFuncs(fname, x)]

safeEvalBin(opname, a, b) == finiteOrNaN[binaryOps(opname, a, b)]

(***************************************************************************)
(* considerValue.                                                          *)
(***************************************************************************)
\* the keep_side filter lets v pass
passesSide(v) ==
  /\ ~(cfg.keep_side = "greater" /\ ~FGt[v, FAdd[cfg.target, cfg.epsilon]])
  /\ ~(cfg.keep_side = "less" /\ ~FLt[v, FSub[cfg.target, cfg.epsilon]])

errOf(v) == FAbs[FSub[cfg.target, v]]

\* savedValues.has(k)
\* (mutant) the dedup test finds nothing
alreadySavedNever(k) == FALSE

alreadySaved(k) == k \in savedValues

\* (mutant) the bound test admits one entry too many
hasRoomOffByOne == size(bestHeap) <= cfg.keep_top

\* bestHeap.size() < keepTop
hasRoom == size(bestHeap) < cfg.keep_top

\* (mutant) the test against the worst entry is reversed
beatsWorstReversed(err, worst) == FGt[err, worst.err]

\* (mutant) a tie with the worst entry replaces it too
beatsWorstOrTies(err, worst) == FLe[err, worst.err]

\* err < worst.err
beatsWorst(err, worst) == FLt[err, worst.err]

\* the result is the new [heap, saved, count] and, in popped, the entry
\* that replace returned, if replace was called
considerValue(v, expr) ==
  LET same == [heap |-> bestHeap, saved |-> savedValues, count |-> exprCountTotal,
               popped |-> <<>>]
  IN IF ~isFiniteNumber(v) THEN same
     ELSE IF ~passesSide(v) THEN same
     ELSE LET err == errOf(v)
              k == key_repr(v)
              counted == [same EXCEPT !.count = exprCountTotal + 1]
          IN IF alreadySaved(k) THEN counted
             ELSE IF hasRoom
             THEN [counted EXCEPT
                     !.heap = push(bestHeap, [err |-> err, v |-> v, expr |-> expr]),
                     !.saved = savedValues \cup {k}]
             ELSE LET worst == peek(bestHeap) IN
                  IF beatsWorst(err, worst)
                  THEN [counted EXCEPT
                          !.heap = replace(bestHeap, [err |-> err, v |-> v, expr |-> expr]),
                          !.saved = (savedValues \ {key_repr(worst.v)}) \cup {k},
                          !.popped = <<worst>>]
                  ELSE counted

(***************************************************************************)
(* The candidates of one iteration of the unary and of the binary loop,    *)
(* in the order in which the code passes them to considerValue and         *)
(* pushes them on results.  A candidate is [v, expr, op, l, r]; op, l, r   *)
(* (operator and operand items) go to the history only.                    *)
(***************************************************************************)
NoItem == [v |-> NaN, expr |-> <<>>]

\* (mutant) no unary application is skipped
unaryPrunedNever(fname, item) == FALSE

\* the cancellation pruning of the unary loop
unaryPruned(fname, item) ==
  \/ fname = LnName /\ is_direct_application[item.expr, ExpName]
  \/ fname = ExpName /\ is_direct_application[item.expr, LnName]

unaryExpr(fname, item) ==
  IF fname = NegName THEN <<"-", "(">> \o item.expr \o <<")">>
  ELSE fname \o <<"(">> \o item.expr \o <<")">>

RECURSIVE unaryOver(_, _)
unaryOver(names, item) ==
  IF names = <<>> THEN <<>>
  ELSE LET fname == Head(names) IN
       (IF unaryPruned(fname, item) THEN <<>>
        ELSE << [v |-> safeEvalFunc(fname, item.v), expr |-> unaryExpr(fname, item),
                 op |-> fname, l |-> item, r |-> NoItem] >>)
       \o unaryOver(Tail(names), item)

\* one iteration of "for (const item of prev)"
unaryCandidates(item) ==
  IF ~isFiniteNumber(item.v) THEN <<>> ELSE unaryOver(unaryFuncNames, item)

\* the identity elimination of the operator loop
identityPruned(opname, R) ==
  \/ opname = "+" /\ FLe[FAbs[R.v], cfg.epsilon]
  \/ opname = "-" /\ FLe[FAbs[R.v], cfg.epsilon]
  \/ opname = "*" /\ FLe[FAbs[FSub[R.v, FromInt[1]]], cfg.epsilon]
  \/ opname = "/" /\ FLe[FAbs[FSub[R.v, FromInt[1]]], cfg.epsilon]

isCommutative(opname) == opname = "+" \/ opname = "*"

\* (mutant) the order (L op R) is generated for every pair
doFirstAlways(opname, L, R) == TRUE

\* doFirst of the operator loop
doFirst(opname, L, R) ==
  ~(isCommutative(opname)
    /\ (FGt[L.v, R.v] \/ (FEq[L.v, R.v] /\ StrGt(L.expr, R.expr))))

binaryExpr(opname, A, B) ==
  <<"(">> \o A.expr \o <<" ", opname, " ">> \o B.expr \o <<")">>

binaryCand(opname, A, B) ==
  [v |-> safeEvalBin(opname, A.v, B.v), expr |-> binaryExpr(opname, A, B),
   op |-> <<opname>>, l |-> A, r |-> B]

RECURSIVE binaryOver(_, _, _)
binaryOver(ops, L, R) ==
  IF ops = <<>> THEN <<>>
  ELSE LET opname == Head(ops) IN
       (IF identityPruned(opname, R) THEN <<>>
        ELSE (IF doFirst(opname, L, R) THEN <<binaryCand(opname, L, R)>> ELSE <<>>)
             \o (IF ~isCommutative(opname) THEN <<binaryCand(opname, R, L)>> ELSE <<>>))
       \o binaryOver(Tail(ops), L, R)

\* one iteration of "for (const R of rightArr)"
binaryCandidates(L, R) ==
  IF ~isFiniteNumber(L.v) \/ ~isFiniteNumber(R.v) THEN <<>>
  ELSE binaryOver(binaryOpNames, L, R)

(***************************************************************************)
(* Positions.  The phases are: "driver" (top of the for loop of the        *)
(* driver), "atoms", "consts", "unary", "binary" (top of an iteration of   *)
(* the loop, or, with q > 0, between two candidates of one iteration),     *)
(* "store" (memo.set and the return to the driver), "progress" (back in    *)
(* the driver without a memo.set), "return" (behind the try statement),    *)
(* "done" (returned) and "escaped" (an exception left the function).       *)
(***************************************************************************)
Pos(phase, a, i, j, q) == [phase |-> phase, a_cost |-> a, i |-> i, j |-> j, q |-> q]

PollPhases == {"driver", "atoms", "consts", "unary", "binary"}

\* the position is a call of timeCheck
AtPoll == pc.phase \in PollPhases /\ pc.q = 0

\* timeCheck returns: not (nowSec() - start > maxSeconds)
timeCheck == clock <= cfg.max_seconds

\* a nested call enumerateCost(c): the early returns of its first two lines
enumerateCost(c) ==
  IF stopped THEN <<>>
  ELSE IF c \in DOMAIN memo THEN memo[c]
  ELSE <<>>

prev == enumerateCost(cost - 1)
leftArr == enumerateCost(pc.a_cost)
\* (mutant) the right operand is taken one level too high
rightArrOffByOne == enumerateCost(cost - pc.a_cost)

\* enumerateCost(b_cost) with b_cost = cost - 1 - a_cost
rightArr == enumerateCost(cost - 1 - pc.a_cost)

RECURSIVE firstSplit(_, _)
\* the first a_cost >= a of the split loop whose leftArr has an element
\* (the first at which the code polls again), 0 if there is none
firstSplit(c, a) ==
  IF a > c - 2 THEN 0
  ELSE IF Len(enumerateCost(a)) > 0 THEN a
  ELSE firstSplit(c, a + 1)

binaryStart(a) ==
  LET a1 == firstSplit(cost, a) IN
  IF a1 = 0 THEN Pos("store", 0, 0, 0, 0) ELSE Pos("binary", a1, 1, 1, 0)

\* (mutant) the loop over the constants starts behind the first constant
constsStartOffByOne ==
  IF Len(cfg.consts) >= 2 THEN Pos("consts", 0, 2, 0, 0) ELSE Pos("store", 0, 0, 0, 0)

\* the position of the first iteration of the loop over the constants
constsStart ==
  IF Len(cfg.consts) >= 1 THEN Pos("consts", 0, 1, 0, 0) ELSE Pos("store", 0, 0, 0, 0)

\* the position behind the first lines of enumerateCost(cost)
enterLevel ==
  IF cost = 1
  THEN (IF cfg.N >= 1 THEN Pos("atoms", 0, 1, 0, 0) ELSE constsStart)
  ELSE IF Len(prev) >= 1 THEN Pos("unary", 0, 1, 0, 0)
  ELSE binaryStart(1)

\* (mutant) the catch block throws the exception again
catchBlockRethrow(message) == "escaped"

\* the catch block of the driver: every exception is swallowed
catchBlock(message) == "return"

(***************************************************************************)
(* The page.  ui is [phase, running, runDisabled, stopDisabled, status,    *)
(* pending, ignored, last]: phase is "direct" when generateEnumerations    *)
(* is called without the page, else the state of the event loop: "idle"    *)
(* (nothing queued), "scheduled" (the timer of the click handler is        *)
(* queued), "enumerating" (the timer's callback is running); running,      *)
(* runDisabled, stopDisabled and status are the flag running, the          *)
(* disabled attributes of the two buttons and the text of the status       *)
(* element; pending is the configuration that readConfig returned to the   *)
(* click handler; ignored counts the clicks on Run that returned at once;  *)
(* last is [cfg, stopped, output] of the run that ended before.            *)
(***************************************************************************)
NoConfig == [none |-> TRUE]

\* texts of the status element
IdleText == <<"i", "d", "l", "e">>

RunningText == <<"r", "u", "n", "n", "i", "n", "g">>

\* `running (level ${p.level}, elapsed ${p.elapsed.toFixed(2)}s, exprs
\* ${p.count})`; the elapsed time is a number of whole seconds
progressText(p) ==
  RunningText \o <<" ", "(", "l", "e", "v", "e", "l", " ">> \o NatToStr(p.level)
  \o <<",", " ", "e", "l", "a", "p", "s", "e", "d", " ">> \o NatToStr(p.elapsed)
  \o <<".", "0", "0", "s", ",", " ", "e", "x", "p", "r", "s", " ">> \o NatToStr(p.count)
  \o <<")">>

NoRun == [none |-> TRUE]

UiWith(phase) ==
  [phase |-> phase, running |-> FALSE, runDisabled |-> FALSE, stopDisabled |-> TRUE,
   status |-> IdleText, pending |-> NoConfig, ignored |-> 0, last |-> NoRun]

\* generateEnumerations called by itself
UiDirect == UiWith("direct")

(***************************************************************************)
(* Actions.                                                                *)
(***************************************************************************)
\* considerValue(v, expr) and its trace in the history
\* (\E over a one-element set names a value that is computed once)
Consider(v, expr) ==
  \E r \in {considerValue(v, expr)} :
  /\ bestHeap' = r.heap
  /\ savedValues' = r.saved
  /\ exprCountTotal' = r.count
  /\ considered' = IF isFiniteNumber(v) /\ passesSide(v)
                   THEN considered \cup {v} ELSE considered
  /\ evicted' = evicted \cup {r.popped[n] : n \in 1..Len(r.popped)}
  /\ firstText' = IF /\ isFiniteNumber(v) /\ passesSide(v)
                     /\ key_repr(v) \notin {f.k : f \in firstText}
                  THEN firstText \cup {[k |-> key_repr(v), expr |-> expr]}
                  ELSE firstText

\* considerValue(c.v, c.expr); results.push({v, expr})
Emit(c) ==
  \E item \in {[v |-> c.v, expr |-> c.expr]} :
  /\ Consider(item.v, item.expr)
  /\ results' = Append(results, item)

\* the state at the try statement of a call with a configuration of C
InitWith(C) ==
  /\ cfg \in C
  /\ clock = 0
  /\ pc = Pos("driver", 0, 0, 0, 0)
  /\ cost = 1
  /\ results = <<>>
  /\ memo = <<>>
  /\ bestHeap = <<>>
  /\ savedValues = {}
  /\ exprCountTotal = 0
  /\ stopped = FALSE
  /\ progress = <<>>
  /\ output = NoOutput
  /\ considered = {}
  /\ generated = {}
  /\ evicted = {}
  /\ levelHeaps = <<>>
  /\ firstText = {}
  /\ ui = UiDirect

Init == InitWith(Configs)

\* the clock advances before a poll reads it.  A poll only compares its
\* reading with max_seconds, so the readings above max_seconds are
\* max_seconds + 1 here; the reading at the end of a level is in FinishLevel
Tick ==
  /\ AtPoll
  /\ clock <= cfg.max_seconds
  /\ clock' = clock + 1
  /\ UNCHANGED <<cfg, pc, cost, results, memo, bestHeap, savedValues,
                 exprCountTotal, stopped, progress, output, considered,
                 generated, evicted, levelHeaps,
                 firstText, ui>>

\* as Timeout, with the unfinished level stored (a memo.set in a finally clause)
TimeoutStoresLevel ==
  /\ AtPoll
  /\ ~timeCheck
  /\ stopped' = TRUE
  /\ pc' = Pos(catchBlock("Timeout"), 0, 0, 0, 0)
  /\ results' = <<>>
  /\ memo' = [c \in DOMAIN memo \cup {cost} |-> IF c = cost THEN results ELSE memo[c]]
  /\ UNCHANGED <<cfg, clock, cost, bestHeap, savedValues, exprCountTotal,
                 progress, output, considered, generated, evicted,
                 levelHeaps, firstText, ui>>

\* (mutant) as Timeout, with onProgress called for the interrupted level
\* too (the call in a finally clause)
TimeoutReportsProgress ==
  /\ AtPoll
  /\ ~timeCheck
  /\ stopped' = TRUE
  /\ pc' = Pos(catchBlock("Timeout"), 0, 0, 0, 0)
  /\ results' = <<>>
  /\ progress' = Append(progress, [level |-> cost, count |-> exprCountTotal])
  /\ UNCHANGED <<cfg, clock, cost, memo, bestHeap, savedValues, exprCountTotal,
                 output, considered, generated, evicted,
                 levelHeaps, firstText, ui>>

\* timeCheck throws; the exception reaches the catch block of the driver
Timeout ==
  /\ AtPoll
  /\ ~timeCheck
  /\ stopped' = TRUE
  /\ pc' = Pos(catchBlock("Timeout"), 0, 0, 0, 0)
  /\ results' = <<>>
  /\ UNCHANGED <<cfg, clock, cost, memo, bestHeap, savedValues, exprCountTotal,
                 progress, output, considered, generated, evicted,
                 levelHeaps,
                 firstText, ui>>

\* for (cost ...) { timeCheck(); enumerateCost(cost) up to its first loop
DriverStep ==
  /\ pc.phase = "driver"
  /\ timeCheck
  /\ IF stopped \/ cost \in DOMAIN memo
     THEN pc' = Pos("progress", 0, 0, 0, 0) /\ results' = results
     ELSE pc' = enterLevel /\ results' = <<>>
  /\ UNCHANGED <<cfg, clock, cost, memo, bestHeap, savedValues, exprCountTotal,
                 stopped, progress, output, considered, generated, evicted,
                 levelHeaps,
                 firstText, ui>>

\* one iteration of "for (const n of numbers)"
AtomStep ==
  /\ pc.phase = "atoms"
  /\ timeCheck
  /\ Emit([v |-> FromInt[pc.i], expr |-> NatToStr(pc.i)])
  /\ pc' = IF pc.i + 1 <= cfg.N THEN Pos("atoms", 0, pc.i + 1, 0, 0) ELSE constsStart
  /\ UNCHANGED <<cfg, clock, cost, memo, stopped, progress, output, generated,
                 levelHeaps,
                 ui>>

\* one iteration of "for (const name of Object.keys(constants))"
ConstStep ==
  /\ pc.phase = "consts"
  /\ timeCheck
  /\ Emit([v |-> cfg.consts[pc.i].value, expr |-> cfg.consts[pc.i].name])
  /\ pc' = IF pc.i + 1 <= Len(cfg.consts) THEN Pos("consts", 0, pc.i + 1, 0, 0)
           ELSE Pos("store", 0, 0, 0, 0)
  /\ UNCHANGED <<cfg, clock, cost, memo, stopped, progress, output, generated,
                 levelHeaps,
                 ui>>

\* the candidate of index pc.q + 1 of cands, if there is one
EmitNext(cands) ==
  IF pc.q < Len(cands)
  THEN \E c \in {cands[pc.q + 1]} :
       /\ Emit(c)
       /\ generated' = generated \cup {[op |-> c.op, l |-> c.l, r |-> c.r, expr |-> c.expr]}
  ELSE UNCHANGED <<results, bestHeap, savedValues, exprCountTotal, considered,
                   generated, evicted,
                   firstText>>

\* "for (const item of prev)": the poll and the first candidate of an
\* iteration (q = 0), or the next candidate of the running iteration
UnaryStep ==
  /\ pc.phase = "unary"
  /\ pc.q = 0 => timeCheck
  /\ \E cands \in {unaryCandidates(prev[pc.i])} :
     /\ EmitNext(cands)
     /\ pc' = IF pc.q + 1 < Len(cands) THEN [pc EXCEPT !.q = pc.q + 1]
              ELSE IF pc.i + 1 <= Len(prev) THEN Pos("unary", 0, pc.i + 1, 0, 0)
              ELSE binaryStart(1)
  /\ UNCHANGED <<cfg, clock, cost, memo, stopped, progress, output, levelHeaps,
                 ui>>

\* "for (const L of leftArr) for (const R of rightArr)": the polls and the
\* first candidate of an iteration (q = 0), or the next candidate
BinaryStep ==
  /\ pc.phase = "binary"
  /\ pc.q = 0 => timeCheck
  /\ \E cands \in {IF Len(rightArr) = 0 THEN <<>>
                   ELSE binaryCandidates(leftArr[pc.i], rightArr[pc.j])} :
     /\ EmitNext(cands)
     /\ pc' = IF pc.q + 1 < Len(cands) THEN [pc EXCEPT !.q = pc.q + 1]
              ELSE IF pc.j + 1 <= Len(rightArr)
                   THEN Pos("binary", pc.a_cost, pc.i, pc.j + 1, 0)
              ELSE IF pc.i + 1 <= Len(leftArr)
                   THEN Pos("binary", pc.a_cost, pc.i + 1, 1, 0)
              ELSE binaryStart(pc.a_cost + 1)
  /\ UNCHANGED <<cfg, clock, cost, memo, stopped, progress, output, levelHeaps,
                 ui>>

\* the callback that the page passes as onProgress: it writes the status
\* text; a direct call has no page to write to
onProgress(p) ==
  IF ui.phase = "enumerating" THEN [ui EXCEPT !.status = progressText(p)] ELSE ui

\* (mutant) as FinishLevel, with results an alias of the array of the level
\* below instead of a new array: the stored level below grows with it
FinishLevelAliasesPrev ==
  /\ pc.phase \in {"store", "progress"}
  /\ memo' = IF pc.phase = "store"
             THEN [c \in DOMAIN memo \cup {cost} |->
                     IF c = cost \/ c = cost - 1
                     THEN (IF cost - 1 \in DOMAIN memo THEN memo[cost - 1] ELSE <<>>) \o results
                     ELSE memo[c]]
             ELSE memo
  /\ progress' = Append(progress, [level |-> cost, count |-> exprCountTotal])
  /\ levelHeaps' = Append(levelHeaps, bestHeap)
  /\ cost' = cost + 1
  /\ pc' = IF cost + 1 <= cfg.max_cost THEN Pos("driver", 0, 0, 0, 0)
           ELSE Pos("return", 0, 0, 0, 0)
  /\ results' = <<>>
  /\ \E t \in clock..(cfg.max_seconds + MaxOverrun) :
       /\ clock' = t
       /\ ui' = onProgress([level |-> cost, elapsed |-> t, count |-> exprCountTotal])
  /\ UNCHANGED <<cfg, bestHeap, savedValues, exprCountTotal, stopped,
                 output, considered, generated, evicted, firstText>>

\* memo.set(cost, results); return; onProgress(...); cost++.  The argument
\* of onProgress holds a new reading t of the clock, nowSec() - start, that
\* no timeCheck compares with max_seconds: the clock does not go back, and
\* the next poll reads t at least
FinishLevel ==
  /\ pc.phase \in {"store", "progress"}
  /\ memo' = IF pc.phase = "store"
             THEN [c \in DOMAIN memo \cup {cost} |-> IF c = cost THEN results ELSE memo[c]]
             ELSE memo
  /\ progress' = Append(progress, [level |-> cost, count |-> exprCountTotal])
  /\ levelHeaps' = Append(levelHeaps, bestHeap)
  /\ cost' = cost + 1
  /\ pc' = IF cost + 1 <= cfg.max_cost THEN Pos("driver", 0, 0, 0, 0)
           ELSE Pos("return", 0, 0, 0, 0)
  /\ results' = <<>>
  /\ \E t \in clock..(cfg.max_seconds + MaxOverrun) :
       /\ clock' = t
       /\ ui' = onProgress([level |-> cost, elapsed |-> t, count |-> exprCountTotal])
  /\ UNCHANGED <<cfg, bestHeap, savedValues, exprCountTotal, stopped,
                 output, considered, generated, evicted, firstText>>

Min(a, b) == IF a < b THEN a ELSE b

\* the value of the return statement
returnValue ==
  [results |-> sortByErr(bestHeap),
   stats |-> [expr_count_total |-> exprCountTotal,
              max_level |-> Min(cfg.max_cost, Cardinality(DOMAIN memo))]]

\* return {results: arr, stats: ...}
Return ==
  /\ pc.phase = "return"
  /\ output' = returnValue
  /\ pc' = Pos("done", 0, 0, 0, 0)
  /\ UNCHANGED <<cfg, clock, cost, results, memo, bestHeap, savedValues,
                 exprCountTotal, stopped, progress, considered, generated,
                 evicted, levelHeaps,
                 firstText, ui>>

Step ==
  \/ DriverStep
  \/ AtomStep
  \/ ConstStep
  \/ UnaryStep
  \/ BinaryStep
  \/ FinishLevel
  \/ Timeout
  \/ Return

Next == Step \/ Tick

Spec == Init /\ [][Next]_vars


(***************************************************************************)
(* Views of the state used by the properties.                              *)
(***************************************************************************)
SeqSet(q) == {q[n] : n \in 1..Len(q)}

\* the entries of the ResultSet
HeapEntries == SeqSet(bestHeap)

\* every item stored in a level of the MemoTable
StoredItems == UNION {SeqSet(memo[c]) : c \in DOMAIN memo}

\* the texts stored in the MemoTable, retained in the ResultSet or returned
KeptTexts ==
  {it.expr : it \in StoredItems} \cup {h.expr : h \in HeapEntries}
  \cup (IF output = NoOutput THEN {} ELSE {o.expr : o \in SeqSet(output.results)})

\* the generation records of the kept texts
KeptGenerated == {g \in generated : g.expr \in KeptTexts}

\* pat occurs in s
Contains(s, pat) ==
  \E n \in 1..(Len(s) - Len(pat) + 1) : SubSeq(s, n, n + Len(pat) - 1) = pat

\* the largest err of a non-empty array of entries
MaxErr(h) == CHOOSE e \in {x.err : x \in SeqSet(h)} : \A x \in SeqSet(h) : FLe[x.err, e]

\* no two positions of an array of entries carry the same quantized key
DistinctKeys(h) ==
  \A a, b \in 1..Len(h) : a # b => key_repr(h[a].v) # key_repr(h[b].v)

\* an array of entries is ascending by err
Ascending(h) == \A n \in 1..(Len(h) - 1) : FLe[h[n].err, h[n + 1].err]

\* the run is over and the budget has not fired
Completed == pc.phase = "done" /\ ~stopped

(***************************************************************************)
(* Properties.                                                             *)
(***************************************************************************)
\* C1: in every state of a run, and in the returned output, the ResultSet
\* holds at most keep_top entries.
C1_TopKBound ==
  /\ Len(bestHeap) <= cfg.keep_top
  /\ output # NoOutput => Len(output.results) <= cfg.keep_top

\* C1 witness: the heap is full and more distinct values than keep_top have
\* been offered to it.
C1_Witness ==
  /\ Len(bestHeap) = cfg.keep_top
  /\ Cardinality({key_repr(v) : v \in considered}) > cfg.keep_top

\* C2: no two entries of the ResultSet, nor of the returned output, have
\* the same quantized key, across insertions and replacements.
C2_Dedup ==
  /\ DistinctKeys(bestHeap)
  /\ output # NoOutput => DistinctKeys(output.results)

\* C2 witness: a replacement has happened, a value has been offered more
\* than once, and the heap holds two entries or more.
C2_Witness ==
  /\ evicted # {}
  /\ Len(bestHeap) >= 2
  /\ exprCountTotal > Cardinality({key_repr(v) : v \in considered})

\* C3: every value that was counted by considerValue is represented in the
\* ResultSet by its key, or the ResultSet is full and none of its entries
\* is farther from the target than that value.
C3_TopKClosest ==
  \A v \in considered :
    \/ key_repr(v) \in {key_repr(h.v) : h \in HeapEntries}
    \/ /\ Len(bestHeap) = cfg.keep_top
       /\ \A h \in HeapEntries : FLe[h.err, errOf(v)]

\* C3 witness: an entry has been replaced and a counted value is not in
\* the ResultSet.
C3_Witness ==
  /\ evicted # {}
  /\ \E v \in considered : key_repr(v) \notin {key_repr(h.v) : h \in HeapEntries}

\* C4: the returned records are ascending by error, for a run ended by
\* the ceiling and for a run ended by the budget.
C4_SortedOutput == output # NoOutput => Ascending(output.results)

\* C4 witness: a run ended by the budget has returned records of different
\* errors that the heap array held in another order.
C4_Witness ==
  /\ output # NoOutput
  /\ stopped
  /\ Len(output.results) >= 2
  /\ ~Ascending(bestHeap)

\* C5 as stated: from one completed level to the next the largest error in
\* the ResultSet does not grow.
C5_Original ==
  \A n \in 1..(Len(levelHeaps) - 1) :
    (levelHeaps[n] # <<>> /\ levelHeaps[n + 1] # <<>>)
      => FLe[MaxErr(levelHeaps[n + 1]), MaxErr(levelHeaps[n])]

\* C5 amended: from a completed level at whose end the ResultSet holds
\* keep_top entries to the next completed level, the largest error in the
\* ResultSet does not grow.
C5_MonotoneWhenFull ==
  \A n \in 1..(Len(levelHeaps) - 1) :
    Len(levelHeaps[n]) = cfg.keep_top
      => FLe[MaxErr(levelHeaps[n + 1]), MaxErr(levelHeaps[n])]

\* C5 witness: the ResultSet was full at the end of a level and its largest
\* error is smaller at the end of the next.
C5_Witness ==
  \E n \in 1..(Len(levelHeaps) - 1) :
    /\ Len(levelHeaps[n]) = cfg.keep_top
    /\ FLt[MaxErr(levelHeaps[n + 1]), MaxErr(levelHeaps[n])]

\* the right operand of a binary candidate is an identity of its operator
IdentityForm(g) ==
  \/ g.op \in {<<"+">>, <<"-">>} /\ g.r # NoItem /\ FLe[FAbs[g.r.v], cfg.epsilon]
  \/ g.op \in {<<"*">>, <<"/">>} /\ FLe[FAbs[FSub[g.r.v, FromInt[1]]], cfg.epsilon]

\* C6: no expression stored in the MemoTable or retained in the ResultSet
\* is (X + Z) or (X - Z) with |Z| <= epsilon, or (X * U) or (X / U) with
\* |U - 1| <= epsilon, in either order of a non-commutative operator.
C6_NoIdentityForm == \A g \in KeptGenerated : ~IdentityForm(g)

\* the texts stored at level c of the MemoTable
Texts(c) == {it.expr : it \in SeqSet(memo[c])}

\* the pairs (A, B) of stored operands of finite value and different text
\* with (value, text) of A <= that of B, and the level c of (A op B)
CanonicalPairs ==
  {t \in UNION {UNION {{[c |-> c, A |-> A, B |-> B] :
                           A \in SeqSet(memo[a]), B \in SeqSet(memo[c - 1 - a])} :
                        a \in 1..(c - 2)} :
                 c \in DOMAIN memo} :
     /\ isFiniteNumber(t.A.v) /\ isFiniteNumber(t.B.v)
     /\ t.A.expr # t.B.expr
     /\ \/ FLt[t.A.v, t.B.v]
        \/ FEq[t.A.v, t.B.v] /\ StrLt(t.A.expr, t.B.expr)}

\* a configuration one level above the ceiling of Configs, where a pair
\* of operands of a commutative operator has an identity on the right of
\* its canonical order: -(1) and 1 under *
CanonConfig == MkCfg(1, FromInt[3], <<PiConst>>, {"neg"}, "both", 4, 1, MaxSeconds)

SpecCanon == InitWith(Configs \cup {CanonConfig}) /\ [][Next]_vars

\* C7 as stated: for + and * and operands A, B of different text, the
\* MemoTable holds exactly the order with (value, text) of the left
\* operand <= that of the right operand, and not the other.
C7_Original ==
  \A t \in CanonicalPairs : \A opname \in {"+", "*"} :
    /\ binaryExpr(opname, t.A, t.B) \in Texts(t.c)
    /\ binaryExpr(opname, t.B, t.A) \notin Texts(t.c)

\* C7 amended: for + and * and operands A, B of different text, the
\* MemoTable never holds both orders: it holds at most the order with
\* (value, text) of the left operand <= that of the right operand, and
\* holds that order unless identity elimination skips its right operand.
C7_CommutativeCanonical ==
  \A t \in CanonicalPairs : \A opname \in {"+", "*"} :
    /\ binaryExpr(opname, t.B, t.A) \notin Texts(t.c)
    /\ binaryExpr(opname, t.A, t.B) \in Texts(t.c) <=> ~identityPruned(opname, t.B)

\* C7 witness: a stored level has a pair whose canonical order is stored
\* and a pair of which no order is stored, both under *.
C7_Witness ==
  /\ \E t \in CanonicalPairs : binaryExpr("*", t.A, t.B) \in Texts(t.c)
  /\ \E t \in CanonicalPairs :
       /\ binaryExpr("*", t.A, t.B) \notin Texts(t.c)
       /\ binaryExpr("*", t.B, t.A) \notin Texts(t.c)

LnExp == <<"l", "n", "(", "e", "x", "p", "(">>
ExpLn == <<"e", "x", "p", "(", "l", "n", "(">>

\* C8: no text stored in the MemoTable, retained in the ResultSet or
\* returned contains "ln(exp(" or "exp(ln(", at any depth.
C8_NoCancellationText ==
  \A t \in KeptTexts : ~Contains(t, LnExp) /\ ~Contains(t, ExpLn)

\* C8 witness: with exp and ln enabled, a level is stored that was built
\* from a level holding an exp application and an ln application.
C8_Witness ==
  /\ cfg.use_exp /\ cfg.use_ln
  /\ \E c \in DOMAIN memo :
       /\ c + 1 \in DOMAIN memo
       /\ \E a, b \in SeqSet(memo[c]) :
            /\ isFiniteNumber(a.v) /\ startsWith(a.expr, ExpName \o <<"(">>)
            /\ isFiniteNumber(b.v) /\ startsWith(b.expr, LnName \o <<"(">>)
       /\ \E x \in SeqSet(memo[c + 1]) : startsWith(x.expr, ExpName \o <<"(">>)

(***************************************************************************)
(* The "make 24" scenario: N = 4, target = 24, max_cost = 4, operators     *)
(* + - * / only, keep_top = 5, keep_side = both.                           *)
(***************************************************************************)
Make24 == MkCfg(4, FromInt[24], <<>>, {}, "both", 4, 5, MaxSeconds)

\* a small configuration with a named constant and a unary function, so
\* that the scenario's specification has every step of the enumerator
SmallConfig == MkCfg(1, FromInt[3], <<PiConst>>, {"neg"}, "both", 2, 1, MaxSeconds)

SpecMake24 == InitWith({Make24, SmallConfig}) /\ [][Next]_vars

\* an entry of error 0 is among the returned records
HasExact == \E o \in SeqSet(output.results) : FEq[o.err, Zero(0)]

\* C9 as stated: the scenario, run to its end without the budget firing,
\* returns an entry of error 0.
C9_Original == (Completed /\ cfg = Make24) => HasExact

\* C9 amended: the scenario, run to its end without the budget firing,
\* returns no entry of error 0: levels 2 and 4 are empty, every expression
\* of cost <= 4 has at most two atoms, and the best returned record is
\* (4 * 4) with value 16 and error 8.
C9_Make24NotReached ==
  (Completed /\ cfg = Make24) =>
    /\ ~HasExact
    /\ memo[2] = <<>> /\ memo[4] = <<>>
    /\ output.results[1].expr = <<"(", "4", " ", "*", " ", "4", ")">>
    /\ FEq[output.results[1].v, FromInt[16]]
    /\ FEq[output.results[1].err, FromInt[8]]

\* C9 witness: the scenario has run through level 4 without the budget
\* firing and has returned five records.
C9_Witness ==
  /\ Completed
  /\ cfg = Make24
  /\ DOMAIN memo = 1..4
  /\ Len(output.results) = 5

(***************************************************************************)
(* Termination.  generateEnumerations is one synchronous call: its loops   *)
(* run without waiting for anything, so a step of the call that can be     *)
(* taken is taken.  The clock is not under the call's control: nothing     *)
(* is assumed about Tick.                                                  *)
(***************************************************************************)
LiveSpec == Init /\ [][Next]_vars /\ WF_vars(Step)

\* C10: every run of generateEnumerations eventually returns a result set
\* and statistics, after completing level max_cost or after the budget
\* check has fired, and no exception leaves it.
C10_Returns ==
  <>(/\ pc.phase = "done"
     /\ output # NoOutput
     /\ stopped \/ DOMAIN memo = 1..cfg.max_cost)

\* C10 witness: a run that the budget ended has returned, and a level was
\* complete before.
C10_Witness ==
  /\ pc.phase = "done"
  /\ stopped
  /\ output # NoOutput
  /\ 1 \in DOMAIN memo

\* C11: from the step in which the budget check fires, no step calls
\* considerValue (the ResultSet, the set of saved keys, the counter and the
\* set of offered values stay as they are), every stored level of the
\* MemoTable stays as it is and no level is added, and the results that
\* are returned are exactly the entries the ResultSet held at that moment.
C11_TimeoutFreezes ==
  [][stopped' =>
       /\ bestHeap' = bestHeap
       /\ savedValues' = savedValues
       /\ exprCountTotal' = exprCountTotal
       /\ considered' = considered
       /\ memo' = memo
       /\ output' # NoOutput =>
            /\ Len(output'.results) = Len(bestHeap)
            /\ SeqSet(output'.results) = HeapEntries]_vars

\* C11 witness: the budget fired inside a level after a completed one, when
\* the level had offered values of its own, and the run has returned two
\* entries or more.
C11_Witness ==
  /\ stopped
  /\ output # NoOutput
  /\ Len(progress) >= 1
  /\ exprCountTotal > progress[Len(progress)].count
  /\ Len(output.results) >= 2

\* the texts of the atoms of level 1: the literals 1..N and the names of
\* the constants
atomTexts ==
  {NatToStr(n) : n \in 1..cfg.N} \cup {cfg.consts[i].name : i \in 1..Len(cfg.consts)}

\* C12: with max_seconds = 0 no expression of cost 2 or more is ever built
\* and offered to considerValue, every returned record is an atom of
\* level 1, and the run returns normally.
C12_ZeroBudgetLevelOne ==
  cfg.max_seconds = 0 =>
    /\ generated = {}
    /\ pc.phase # "escaped"
    /\ output # NoOutput => \A o \in SeqSet(output.results) : o.expr \in atomTexts

\* the array that enumerateCost(1) builds: the literals 1..N in increasing
\* order, then the constants in the order of Object.keys
levelOneItems ==
  [n \in 1..(cfg.N + Len(cfg.consts)) |->
     IF n <= cfg.N THEN [v |-> FromInt[n], expr |-> NatToStr(n)]
     ELSE [v |-> cfg.consts[n - cfg.N].value, expr |-> cfg.consts[n - cfg.N].name]]

\* C14: whenever MemoTable[1] is stored it is the atoms 1..N in increasing
\* order, each with its decimal literal as text, followed by one entry per
\* named constant with the name as text, with no other entry and no text
\* twice; each entry was passed to considerValue: the counter reported for
\* level 1 is the number of entries that are finite and on the kept side,
\* and each of these values is among the offered ones.
C14_LevelOneAtoms ==
  1 \in DOMAIN memo =>
    /\ memo[1] = levelOneItems
    /\ \A a, b \in 1..Len(memo[1]) : a # b => memo[1][a].expr # memo[1][b].expr
    /\ \A n \in 1..Len(memo[1]) :
         isFiniteNumber(memo[1][n].v) /\ passesSide(memo[1][n].v)
           => memo[1][n].v \in considered
    /\ progress[1].count =
         Cardinality({n \in 1..Len(memo[1]) :
                        isFiniteNumber(memo[1][n].v) /\ passesSide(memo[1][n].v)})

\* C14 witness: level 1 is stored with two integer atoms and a constant.
C14_Witness ==
  /\ 1 \in DOMAIN memo
  /\ cfg.N = 2
  /\ Len(cfg.consts) = 1
  /\ Len(memo[1]) = 3
  /\ memo[1][3].expr = <<"p", "i">>

\* the positions inside the body of enumerateCost(cost)
EnumeratingPhases == {"atoms", "consts", "unary", "binary", "store"}

\* an item stored at level c is an atom (c = 1), or it was generated from
\* one item of level c - 1, or from two items of levels a and b with
\* a + b + 1 = c
BuiltFromBelow(c, it) ==
  IF c = 1 THEN it \in SeqSet(levelOneItems)
  ELSE \E g \in generated :
         /\ g.expr = it.expr
         /\ \/ g.r = NoItem /\ g.l \in SeqSet(memo[c - 1])
            \/ \E a, b \in DOMAIN memo :
                 /\ a + b + 1 = c
                 /\ g.l \in SeqSet(memo[a])
                 /\ g.r \in SeqSet(memo[b])

\* every stored level holds only items built from the levels below it, and
\* the level being enumerated is not a stored one
MemoLayered ==
  /\ \A c \in DOMAIN memo : \A n \in 1..Len(memo[c]) : BuiltFromBelow(c, memo[c][n])
  /\ pc.phase \in EnumeratingPhases => cost \notin DOMAIN memo

\* C15: once MemoTable[c] is stored, every later step leaves it stored and
\* unchanged; no step enumerates a stored level again; and every entry of
\* a stored level c is built only from entries of levels below c.
C15_StoredLevelsFrozen ==
  [][/\ \A c \in DOMAIN memo : c \in DOMAIN memo' /\ memo'[c] = memo[c]
     /\ MemoLayered']_vars

\* C15 witness: three levels are stored, the third one with an entry made
\* by a binary operator from two entries of level 1, and the run has gone
\* on to its end.
C15_Witness ==
  /\ pc.phase = "done"
  /\ DOMAIN memo = 1..3
  /\ \E n \in 1..Len(memo[3]) : \E g \in generated :
       g.expr = memo[3][n].expr /\ g.r # NoItem /\ g.l \in SeqSet(memo[1])
  /\ \E n \in 1..Len(memo[2]) : \E g \in generated :
       g.expr = memo[2][n].expr /\ g.r = NoItem

\* C16: the calls of the progress callback are one per completed (stored)
\* level and none for a level that was interrupted or is unfinished: the
\* n-th call reports level n, so the levels are 1, 2, 3, ... without gap,
\* and the cumulative counts reported never decrease nor exceed the
\* counter.
C16_ProgressPerLevel ==
  /\ DOMAIN memo = 1..Len(progress)
  /\ \A n \in 1..Len(progress) :
       /\ progress[n].level = n
       /\ progress[n].level < cost
       /\ progress[n].count <= exprCountTotal
  /\ \A n \in 1..(Len(progress) - 1) : progress[n].count <= progress[n + 1].count

\* C16 witness: the budget fired inside level 3 after the level had
\* offered values; the callback was called for levels 1 and 2, with a
\* larger count for level 2.
C16_Witness ==
  /\ stopped
  /\ cost = 3
  /\ Len(progress) = 2
  /\ progress[2].count > progress[1].count
  /\ exprCountTotal > progress[2].count

\* the cost of an expression read off its text: an opening parenthesis per
\* operator (f(x), -(x), (a op b)), an atom more than binary operators,
\* and two blanks per binary operator
TextCost(s) ==
  Cardinality({n \in 1..Len(s) : s[n] = "("})
  + Cardinality({n \in 1..Len(s) : s[n] = " "}) \div 2 + 1

\* C17: every expression of the returned results has a cost of at most
\* stats.max_level, whether the run ended at the ceiling or by the budget.
C17_MaxLevelBoundsCost ==
  output # NoOutput =>
    \A o \in SeqSet(output.results) : TextCost(o.expr) <= output.stats.max_level

\* a configuration with exp, ln and negation and a ceiling of 4: level 3
\* holds negations of exp and ln applications
CancelConfig == MkCfg(2, FromInt[3], <<>>, {"exp", "ln", "neg"}, "both", 4, 1, MaxSeconds)

SpecCancel == InitWith(Configs \cup {CancelConfig}) /\ [][Next]_vars

\* the function that fname cancels with
inverseName(fname) == IF fname = LnName THEN ExpName ELSE LnName

\* the outermost operation of the stored item is one application of fname
OutermostIs(item, fname) ==
  \E g \in generated : g.expr = item.expr /\ g.op = fname /\ g.r = NoItem

\* C18: the cancellation rule skips only analytic identities: where ln or
\* exp is enabled and its application to a stored operand of finite value
\* is missing from the next stored level, the outermost operation of the
\* operand is one application of the inverse function; an operand whose
\* outermost operation is a negation or a binary operator is never skipped.
C18_OnlyIdentitiesSkipped ==
  \A c \in DOMAIN memo : \A item \in SeqSet(memo[c]) :
    \A fname \in {f \in {ExpName, LnName} : f \in SeqSet(unaryFuncNames)} :
      (/\ c + 1 \in DOMAIN memo
       /\ isFiniteNumber(item.v)
       /\ unaryExpr(fname, item) \notin Texts(c + 1))
      => OutermostIs(item, inverseName(fname))

\* the quantized keys of an array of entries
KeysOf(h) == {key_repr(x.v) : x \in SeqSet(h)}

\* C19: every entry of the ResultSet, and of the returned results, carries
\* the text of the first counted considerValue call with its quantized
\* value, and no value that was evicted is in the ResultSet again.
C19_FirstTextWins ==
  /\ \A h \in HeapEntries : [k |-> key_repr(h.v), expr |-> h.expr] \in firstText
  /\ \A x \in evicted : key_repr(x.v) \notin KeysOf(bestHeap)
  /\ output # NoOutput =>
       /\ \A o \in SeqSet(output.results) :
            [k |-> key_repr(o.v), expr |-> o.expr] \in firstText
       /\ \A x \in evicted : key_repr(x.v) \notin KeysOf(output.results)

\* C19 witness: the run has returned an entry whose value was offered again
\* later under another text, and a value that was evicted during some level
\* was offered again at a later level.
C19_Witness ==
  /\ output # NoOutput
  /\ \E o \in SeqSet(output.results) : \E it \in StoredItems :
       key_repr(it.v) = key_repr(o.v) /\ it.expr # o.expr
  /\ \E x \in evicted : \E n \in DOMAIN levelHeaps :
       /\ n \in DOMAIN memo
       /\ x.expr \in UNION {Texts(c) : c \in 1..n}
       /\ x \notin SeqSet(levelHeaps[n])
       /\ \E c \in DOMAIN memo : c > n /\ key_repr(x.v) \in KeysOf(memo[c])

(***************************************************************************)
(* JSON.parse and the conversions of its result.  A value is [t, v]: t is  *)
(* "num" (v a number), "str" (v a text), "bool" (v a Boolean), "null",     *)
(* "arr" (v the sequence of the elements) or "obj" (v the sequence of the  *)
(* members [key, val] in the order of the text).                           *)
(***************************************************************************)
\* the index of the first character of s at or behind i that is no JSON
\* white space
skipWs[s \in Seq(STRING), i \in Nat] ==
  IF i > Len(s) THEN i
  ELSE CHOOSE j \in i..(Len(s) + 1) :
         /\ charAt(s, j) \notin {" ", "\t", "\n", "\r"}
         /\ \A k \in i..(j - 1) : s[k] \in {" ", "\t", "\n", "\r"}

\* the index behind the decimal digits of s that start at i
digitsEnd[s \in Seq(STRING), i \in Nat] ==
  IF i > Len(s) THEN i
  ELSE CHOOSE j \in i..(Len(s) + 1) :
         /\ digitOf(charAt(s, j), 10) < 0
         /\ \A k \in i..(j - 1) : digitOf(s[k], 10) >= 0

\* the number that the decimal digits ds denote behind the digits of acc,
\* for small numbers: from 100000 on it is not exact, and is 100000 at least
SmallNat[ds \in Seq(STRING), acc \in Nat] ==
  IF ds = <<>> THEN acc
  ELSE SmallNat[Tail(ds), IF acc >= 100000 THEN acc ELSE acc * 10 + digitOf(Head(ds), 10)]

\* the number that the digits lo .. hi of ds denote in the radix, behind
\* the digits of acc
BigFromDigits[ds \in Seq(STRING), radix \in Nat, acc \in Big, lo \in Nat, hi \in Nat] ==
  IF lo > hi THEN acc
  ELSE IF lo = hi THEN BigMulC[acc, radix, digitOf(ds[lo], radix)]
  ELSE BigFromDigits[ds, radix, BigFromDigits[ds, radix, acc, lo, (lo + hi) \div 2],
                     (lo + hi) \div 2 + 1, hi]

\* a * 10^n
MulPow10[a \in Big, n \in Nat] ==
  IF n <= 4 THEN BigMulC[a, <<1, 10, 100, 1000, 10000>>[n + 1], 0]
  ELSE MulPow10[MulPow10[a, n \div 2], n - n \div 2]

\* x[1] \div 10^n, and 1 when x[2] = 1 or a remainder was not 0
DivPow10[x \in Big \X {0, 1}, n \in Nat] ==
  IF n <= 4
  THEN <<BigDivFrom[x[1], <<1, 10, 100, 1000, 10000>>[n + 1], <<<<>>, 0>>, 1, Len(x[1])][1],
         IF BigDivFrom[x[1], <<1, 10, 100, 1000, 10000>>[n + 1], <<<<>>, 0>>, 1, Len(x[1])][2] # 0
         THEN 1 ELSE x[2]>>
  ELSE DivPow10[DivPow10[x, n \div 2], n - n \div 2]

\* the number nearest to (-1)^s * ds * 10^e10, for decimal digits ds
DecimalValue[s \in {0, 1}, ds \in Seq(STRING), e10 \in Int] ==
  IF BigFromDigits[ds, 10, <<>>, 1, Len(ds)] = <<>> THEN Zero(s)
  ELSE IF e10 > 310 THEN Inf(s)
  ELSE IF e10 >= 0 THEN RoundBig[s, MulPow10[BigFromDigits[ds, 10, <<>>, 1, Len(ds)], e10], 0]
  ELSE IF 0 - e10 > Len(ds) + 330 THEN Zero(s)
  ELSE LET k == 4 * (0 - e10) + 20
           d == DivPow10[<<BigShl[BigFromDigits[ds, 10, <<>>, 1, Len(ds)], k], 0>>,
                         0 - e10]
       IN RoundBig[s, BigMulC[d[1], 2, d[2]], 0 - k - 1]

\* the index behind the exponent part at s[b], b when there is none or its
\* digits are missing
exponentEnd[s \in Seq(STRING), b \in Nat] ==
  LET sg == IF charAt(s, b + 1) \in {"+", "-"} THEN b + 2 ELSE b + 1
  IN IF charAt(s, b) \in {"e", "E"} /\ digitsEnd[s, sg] > sg THEN digitsEnd[s, sg] ELSE b

\* the parts of the text s[i .. c - 1], whose digits before the dot end
\* before s[a] and whose digits behind the dot end before s[b]
decimalParts(s, i, a, b, c) ==
  LET sg == IF charAt(s, b + 1) \in {"+", "-"} THEN b + 2 ELSE b + 1
  IN [ok |-> (a - i) + (IF b > a THEN b - a - 1 ELSE 0) > 0,
      ip |-> SubSeq(s, i, a - 1), dot |-> b > a,
      fp |-> IF b > a THEN SubSeq(s, a + 1, b - 1) ELSE <<>>,
      ex |-> IF c = b THEN 0
             ELSE IF charAt(s, b + 1) = "-" THEN 0 - SmallNat[SubSeq(s, sg, c - 1), 0]
             ELSE SmallNat[SubSeq(s, sg, c - 1), 0],
      i |-> c]

\* the longest text at s[i] of the forms digits, digits.digits and .digits
\* with an exponent part, or without one when its digits are missing: ip
\* and fp are the digits before and behind the dot, ex the exponent, i the
\* index behind the text
scanDecimal[s \in Seq(STRING), i \in Nat] ==
  CHOOSE d \in
    {decimalParts(s, i, a, b, exponentEnd[s, b]) :
       a \in {digitsEnd[s, i]},
       b \in {IF charAt(s, digitsEnd[s, i]) = "."
              THEN digitsEnd[s, digitsEnd[s, i] + 1] ELSE digitsEnd[s, i]}} : TRUE

\* no value
Fail == [ok |-> FALSE, v |-> [t |-> "null"], i |-> 0]

\* a JSON number at s[i]
parseNumber[s \in Seq(STRING), i \in Nat] ==
  CHOOSE r \in
    {IF /\ d.ok
        /\ Len(d.ip) >= 1
        /\ (Len(d.ip) = 1 \/ d.ip[1] # "0")
        /\ (d.dot => Len(d.fp) >= 1)
     THEN [ok |-> TRUE,
           v |-> [t |-> "num",
                  v |-> DecimalValue[IF charAt(s, i) = "-" THEN 1 ELSE 0, d.ip \o d.fp,
                                     d.ex - Len(d.fp)]],
           i |-> d.i]
     ELSE Fail :
       d \in {scanDecimal[s, IF charAt(s, i) = "-" THEN i + 1 ELSE i]}} : TRUE

\* s[p] is a backslash that begins an escape sequence of the string whose
\* first character is s[i]: the backslashes just before it are even in number
escapeAt(s, i, p) ==
  /\ p >= i
  /\ charAt(s, p) = "\\"
  /\ (p - 1 - CHOOSE k \in (i - 1)..(p - 1) :
                 /\ k = i - 1 \/ s[k] # "\\"
                 /\ \A m \in (k + 1)..(p - 1) : s[m] = "\\") % 2 = 0

\* the character that the escape sequence at s[p] denotes, "" when it is
\* no escape sequence of JSON
unescape(s, p) ==
  LET e == charAt(s, p + 1)
      h(k) == digitOf(charAt(s, p + k), 16)
  IN IF e \in {"\"", "\\", "/"} THEN e
     ELSE IF e \in {"b", "f", "n", "r", "t"}
     THEN CodeUnit(CASE e = "b" -> 8 [] e = "f" -> 12 [] e = "n" -> 10
                     [] e = "r" -> 13 [] e = "t" -> 9)
     ELSE IF e = "u" /\ \A k \in 2..5 : h(k) >= 0
     THEN CodeUnit(4096 * h(2) + 256 * h(3) + 16 * h(4) + h(5))
     ELSE ""

\* the characters that s[lo .. hi] adds to the string whose first character
\* is s[i]: an escape sequence gives its character where it begins
stringChars[s \in Seq(STRING), i \in Nat, lo \in Nat, hi \in Nat] ==
  IF lo > hi THEN <<>>
  ELSE IF lo < hi
  THEN stringChars[s, i, lo, (lo + hi) \div 2] \o stringChars[s, i, (lo + hi) \div 2 + 1, hi]
  ELSE IF escapeAt(s, i, lo) THEN <<unescape(s, lo)>>
  ELSE IF escapeAt(s, i, lo - 1) THEN <<>>
  ELSE IF \E d \in 2..5 : escapeAt(s, i, lo - d) /\ s[lo - d + 1] = "u" THEN <<>>
  ELSE <<s[lo]>>

\* the JSON string whose first character is s[i], up to the first quote
\* that no backslash escapes; it holds no code unit below 32
parseString[s \in Seq(STRING), i \in Nat] ==
  LET Q == {j \in i..Len(s) : s[j] = "\"" /\ ~escapeAt(s, i, j - 1)}
      e == CHOOSE j \in Q : \A k \in Q : j <= k
  IN IF Q = {} THEN Fail
     ELSE IF \E p \in i..(e - 1) :
               \/ s[p] \in {CodeUnit(n) : n \in 0..31}
               \/ escapeAt(s, i, p) /\ unescape(s, p) = ""
     THEN Fail
     ELSE [ok |-> TRUE, v |-> [t |-> "str", v |-> stringChars[s, i, i, e - 1]], i |-> e + 1]

\* a JSON string, number, true, false or null at s[i]: [ok, v, i] with the
\* value v and the index i behind its text
parseScalar[s \in Seq(STRING), i \in Nat] ==
  LET word(w) == startsWith(SubSeq(s, i, Len(s)), w) IN
  IF charAt(s, i) = "\"" THEN parseString[s, i + 1]
  ELSE IF charAt(s, i) = "-" \/ digitOf(charAt(s, i), 10) >= 0 THEN parseNumber[s, i]
  ELSE IF word(<<"t", "r", "u", "e">>)
  THEN [ok |-> TRUE, v |-> [t |-> "bool", v |-> TRUE], i |-> i + 4]
  ELSE IF word(<<"f", "a", "l", "s", "e">>)
  THEN [ok |-> TRUE, v |-> [t |-> "bool", v |-> FALSE], i |-> i + 5]
  ELSE IF word(<<"n", "u", "l", "l">>)
  THEN [ok |-> TRUE, v |-> [t |-> "null"], i |-> i + 4]
  ELSE Fail

\* the parser after the value v, whose text ends before s[i], inside the
\* open arrays and objects of stack: v goes into the innermost one
parsePut(s, stack, v, i) ==
  LET top == stack[Len(stack)] IN
  IF stack = <<>> THEN [mode |-> "done", i |-> i, stack |-> <<>>, v |-> v]
  ELSE [mode |-> "after", i |-> skipWs[s, i],
        stack |-> [stack EXCEPT ![Len(stack)].items =
                     Append(@, IF top.t = "arr" THEN v ELSE [key |-> top.key, val |-> v])],
        v |-> v]

\* one step of the parser.  st is [mode, i, stack, v]: s[i] is the next
\* character; stack holds the arrays and objects that are open, each as
\* [t, items, key] with the elements or members read so far and the key
\* of the member being read, the innermost last; mode is "value" (a
\* value is next), "key" (a member is next), "after" (a comma or the
\* closing bracket is next), "done" (the value v is complete) or "fail"
parseStep(s, st) ==
  LET c == charAt(s, st.i)
      j == skipWs[s, st.i + 1]
      top == st.stack[Len(st.stack)]
      rest == SubSeq(st.stack, 1, Len(st.stack) - 1)
      open(t) == Append(st.stack, [t |-> t, items |-> <<>>, key |-> <<>>])
      failed == [st EXCEPT !.mode = "fail"]
  IN IF st.mode = "value"
     THEN (IF c = "{"
           THEN (IF charAt(s, j) = "}" THEN parsePut(s, st.stack, [t |-> "obj", v |-> <<>>], j + 1)
                 ELSE [st EXCEPT !.mode = "key", !.i = j, !.stack = open("obj")])
           ELSE IF c = "["
           THEN (IF charAt(s, j) = "]" THEN parsePut(s, st.stack, [t |-> "arr", v |-> <<>>], j + 1)
                 ELSE [st EXCEPT !.i = j, !.stack = open("arr")])
           ELSE CHOOSE r \in {IF sc.ok THEN parsePut(s, st.stack, sc.v, sc.i) ELSE failed :
                                sc \in {parseScalar[s, st.i]}} : TRUE)
     ELSE IF st.mode = "key"
     THEN (IF c # "\"" THEN failed
           ELSE CHOOSE r \in
                  {IF ~k.ok THEN failed
                   ELSE IF charAt(s, skipWs[s, k.i]) # ":" THEN failed
                   ELSE [st EXCEPT !.mode = "value", !.i = skipWs[s, skipWs[s, k.i] + 1],
                                   !.stack = Append(rest, [top EXCEPT !.key = k.v.v])] :
                     k \in {parseString[s, st.i + 1]}} : TRUE)
     ELSE IF st.mode = "after"
     THEN (IF c = "," THEN [st EXCEPT !.mode = IF top.t = "arr" THEN "value" ELSE "key", !.i = j]
           ELSE IF (c = "]" /\ top.t = "arr") \/ (c = "}" /\ top.t = "obj")
           THEN parsePut(s, rest, [t |-> top.t, v |-> top.items], st.i + 1)
           ELSE failed)
     ELSE st

RECURSIVE parseRun(_, _, _)
\* n steps of the parser from st; the steps are halved, so that the depth
\* is the logarithm of n
parseRun(s, st, n) ==
  IF n <= 1 THEN parseStep(s, st)
  ELSE CHOOSE r \in {parseRun(s, mid, n - n \div 2) : mid \in {parseRun(s, st, n \div 2)}} : TRUE

\* JSON.parse(s): ok is FALSE when it throws a SyntaxError.  Every step
\* but the last reads a character, so Len(s) + 1 steps read the text
JSONparse[s \in Seq(STRING)] ==
  CHOOSE p \in
    {IF r.mode = "done" /\ skipWs[s, r.i] = Len(s) + 1 THEN [ok |-> TRUE, v |-> r.v]
     ELSE [ok |-> FALSE, v |-> [t |-> "null"]] :
       r \in {parseRun(s, [mode |-> "value", i |-> skipWs[s, 1], stack |-> <<>>,
                           v |-> [t |-> "null"]], Len(s) + 1)}} : TRUE

\* Number(str) of a string
StringToNumber[str \in Seq(STRING)] ==
  CHOOSE x \in
    {LET sign == IF charAt(t, 1) = "-" THEN 1 ELSE 0
         u == IF charAt(t, 1) \in {"+", "-"} THEN Tail(t) ELSE t
         radix == IF charAt(t, 1) # "0" THEN 0
                  ELSE IF charAt(t, 2) \in {"x", "X"} THEN 16
                  ELSE IF charAt(t, 2) \in {"o", "O"} THEN 8
                  ELSE IF charAt(t, 2) \in {"b", "B"} THEN 2
                  ELSE 0
     IN IF t = <<>> THEN Zero(0)
        ELSE IF radix # 0
        THEN (IF Len(t) > 2 /\ \A k \in 3..Len(t) : digitOf(t[k], radix) >= 0
              THEN RoundBig[0, BigFromDigits[t, radix, <<>>, 3, Len(t)], 0]
              ELSE NaN)
        ELSE IF u = <<"I", "n", "f", "i", "n", "i", "t", "y">> THEN Inf(sign)
        ELSE CHOOSE y \in {IF d.ok /\ d.i = Len(u) + 1
                           THEN DecimalValue[sign, d.ip \o d.fp, d.ex - Len(d.fp)]
                           ELSE NaN : d \in {scanDecimal[u, 1]}} : TRUE :
       t \in {trim[str]}} : TRUE

RECURSIVE ToNumber(_)
\* Number(v) of a value of JSON.parse: an array is converted by way of the
\* text of its join(','), an object by way of '[object Object]'
ToNumber(v) ==
  IF v.t = "num" THEN v.v
  ELSE IF v.t = "str" THEN StringToNumber[v.v]
  ELSE IF v.t = "bool" THEN FromInt[IF v.v THEN 1 ELSE 0]
  ELSE IF v.t = "null" THEN Zero(0)
  ELSE IF v.t = "obj" THEN NaN
  ELSE IF Len(v.v) = 0 THEN Zero(0)
  ELSE IF Len(v.v) > 1 THEN NaN
  ELSE IF v.v[1].t = "null" THEN Zero(0)
  ELSE IF v.v[1].t = "num" THEN (IF IsZero(v.v[1].v) THEN Zero(0) ELSE v.v[1].v)
  ELSE IF v.v[1].t \in {"str", "arr"} THEN ToNumber(v.v[1])
  ELSE NaN

\* k is an array index: the decimal text of an integer 0 .. 2^32 - 2
isArrayIndex(k) ==
  /\ Len(k) >= 1
  /\ \A n \in 1..Len(k) : digitOf(k[n], 10) >= 0
  /\ (Len(k) = 1 \/ k[1] # "0")
  /\ \/ Len(k) < 10
     \/ Len(k) = 10 /\ ~StrLt(<<"4", "2", "9", "4", "9", "6", "7", "2", "9", "4">>, k)

\* Object.keys(ms) of the members ms of an object: each key once, the array
\* indices in ascending order, then the other keys in the order of their
\* first member
ObjectKeys(ms) ==
  LET first == {n \in 1..Len(ms) : \A p \in 1..(n - 1) : ms[p].key # ms[n].key}
      index == {n \in first : isArrayIndex(ms[n].key)}
      before(m, n) ==
        IF m \in index /\ n \in index
        THEN \/ Len(ms[m].key) < Len(ms[n].key)
             \/ Len(ms[m].key) = Len(ms[n].key) /\ StrLt(ms[m].key, ms[n].key)
        ELSE IF (m \in index) # (n \in index) THEN m \in index
        ELSE m < n
  IN [r \in 1..Cardinality(first) |->
        ms[CHOOSE n \in first : Cardinality({m \in first : before(m, n)}) = r - 1].key]

\* the names and numbers that enumerateCost(1) takes from cfg.consts = v:
\* name of Object.keys(v || {}), each with Number(v[name])
constantsOf(v) ==
  IF v.t = "obj"
  THEN [r \in 1..Len(ObjectKeys(v.v)) |->
          [name |-> ObjectKeys(v.v)[r],
           value |-> ToNumber(v.v[CHOOSE n \in 1..Len(v.v) :
                                    /\ v.v[n].key = ObjectKeys(v.v)[r]
                                    /\ \A p \in (n + 1)..Len(v.v) : v.v[p].key # v.v[n].key].val)]]
  ELSE IF v.t = "arr"
  THEN [r \in 1..Len(v.v) |-> [name |-> NatToStr(r - 1), value |-> ToNumber(v.v[r])]]
  ELSE IF v.t = "str"
  THEN [r \in 1..Len(v.v) |-> [name |-> NatToStr(r - 1), value |-> StringToNumber[<<v.v[r]>>]]]
  ELSE <<>>

(***************************************************************************)
(* The page: readConfig and the click handlers of the Run and Stop         *)
(* buttons.  The handlers run one at a time on the event loop; the         *)
(* enumeration is synchronous, so no handler runs while it lasts.          *)
(***************************************************************************)
\* the most Run clicks that are counted while running is true
MaxClicks == 1

\* texts of the constants field: empty, { "x": "2" } and {x:2} (a key
\* without quotes, which JSON.parse rejects)
ConstTexts ==
  { <<>>,
    <<"{", " ", "\"", "x", "\"", ":", " ", "\"", "2", "\"", " ", "}">>,
    <<"{", "x", ":", "2", "}">> }

\* the contents of the form: the numeric fields by the number they parse to
Forms ==
  { [n |-> 1, target |-> 3, consts |-> t, use_exp |-> FALSE, use_ln |-> FALSE,
     use_neg |-> TRUE, keep_side |-> "both", max_cost |-> 3, keep_top |-> 3,
     max_seconds |-> ms] : t \in ConstTexts, ms \in 0..MaxSeconds }

\* x || d for a number x
orDefault(x, d) == IF x = 0 THEN d ELSE x

\* the exception that readConfig throws again after the alert
Rejected == [rejected |-> TRUE]

\* readConfig() on the contents of the form
readConfig(form) ==
  CHOOSE c \in
    {IF ~parsed.ok THEN Rejected
     ELSE [N |-> orDefault(form.n, 0), target |-> FromInt[orDefault(form.target, 0)],
           consts |-> parsed.v,
           use_exp |-> form.use_exp, use_ln |-> form.use_ln, use_neg |-> form.use_neg,
           keep_side |-> form.keep_side,
           max_cost |-> orDefault(form.max_cost, 7),
           keep_top |-> orDefault(form.keep_top, 10),
           max_seconds |-> orDefault(form.max_seconds, 10),
           epsilon |-> Epsilon12] :
       parsed \in {JSONparse[IF form.consts = <<>> THEN <<"{", "}">> ELSE form.consts]}} : TRUE

\* the page after loading: no handler has run
UiInit ==
  /\ cfg = NoConfig
  /\ clock = 0
  /\ pc = Pos("idle", 0, 0, 0, 0)
  /\ cost = 1
  /\ results = <<>>
  /\ memo = <<>>
  /\ bestHeap = <<>>
  /\ savedValues = {}
  /\ exprCountTotal = 0
  /\ stopped = FALSE
  /\ progress = <<>>
  /\ output = NoOutput
  /\ considered = {}
  /\ generated = {}
  /\ evicted = {}
  /\ levelHeaps = <<>>
  /\ firstText = {}
  /\ ui = UiWith("idle")

\* the statements of the Run handler from "running = true" to the call of
\* readConfig
runClicked ==
  [ui EXCEPT !.running = TRUE, !.stopDisabled = FALSE, !.runDisabled = TRUE,
             !.status = RunningText, !.ignored = 0]

\* the click handler of the Run button: it returns at once while running
\* is true; else it sets the flag and the buttons and calls readConfig,
\* whose exception ends the handler, and sets the timer
ClickRun ==
  /\ ui.phase \in {"idle", "scheduled"}
  /\ IF ui.running
     THEN /\ ui.ignored < MaxClicks
          /\ ui' = [ui EXCEPT !.ignored = ui.ignored + 1]
     ELSE \E form \in Forms : \E c \in {readConfig(form)} :
            ui' = IF c = Rejected THEN runClicked
                  ELSE [runClicked EXCEPT !.phase = "scheduled", !.pending = c]
  /\ UNCHANGED <<cfg, clock, pc, cost, results, memo, bestHeap, savedValues,
                 exprCountTotal, stopped, progress, output, considered,
                 generated, evicted, levelHeaps, firstText>>

\* the click handler of the Stop button (a disabled button gets no click)
ClickStop ==
  /\ ui.phase \in {"idle", "scheduled"}
  /\ ~ui.stopDisabled
  /\ ui' = [ui EXCEPT !.stopDisabled = TRUE]
  /\ UNCHANGED <<cfg, clock, pc, cost, results, memo, bestHeap, savedValues,
                 exprCountTotal, stopped, progress, output, considered,
                 generated, evicted, levelHeaps, firstText>>

\* (mutant) as TimerFires, with the MemoTable kept from the run before (a
\* memo declared outside generateEnumerations)
TimerFiresKeepsMemo ==
  /\ ui.phase = "scheduled"
  /\ ui' = [ui EXCEPT !.phase = "enumerating"]
  /\ cfg' = [ui.pending EXCEPT !.consts = constantsOf(ui.pending.consts)]
  /\ clock' = 0
  /\ pc' = Pos("driver", 0, 0, 0, 0)
  /\ cost' = 1
  /\ results' = <<>>
  /\ memo' = memo
  /\ bestHeap' = <<>>
  /\ savedValues' = {}
  /\ exprCountTotal' = 0
  /\ stopped' = FALSE
  /\ progress' = <<>>
  /\ output' = NoOutput
  /\ considered' = {}
  /\ generated' = {}
  /\ evicted' = {}
  /\ levelHeaps' = <<>>
  /\ firstText' = {}

\* the timer fires: the callback calls generateEnumerations(cfg, ...),
\* which sets up its locals; of cfg.consts the enumeration sees the names
\* and the numbers of constantsOf
TimerFires ==
  /\ ui.phase = "scheduled"
  /\ ui' = [ui EXCEPT !.phase = "enumerating"]
  /\ cfg' = [ui.pending EXCEPT !.consts = constantsOf(ui.pending.consts)]
  /\ clock' = 0
  /\ pc' = Pos("driver", 0, 0, 0, 0)
  /\ cost' = 1
  /\ results' = <<>>
  /\ memo' = <<>>
  /\ bestHeap' = <<>>
  /\ savedValues' = {}
  /\ exprCountTotal' = 0
  /\ stopped' = FALSE
  /\ progress' = <<>>
  /\ output' = NoOutput
  /\ considered' = {}
  /\ generated' = {}
  /\ evicted' = {}
  /\ levelHeaps' = <<>>
  /\ firstText' = {}

\* generateEnumerations has returned or thrown: the rest of the try
\* statement of the callback, with its finally clause
UiFinish ==
  /\ ui.phase = "enumerating"
  /\ pc.phase \in {"done", "escaped"}
  /\ ui' = [ui EXCEPT !.phase = "idle", !.running = FALSE, !.stopDisabled = TRUE,
                      !.runDisabled = FALSE, !.status = IdleText, !.pending = NoConfig,
                      !.last = [cfg |-> cfg, stopped |-> stopped, output |-> output]]
  /\ pc' = Pos("idle", 0, 0, 0, 0)
  /\ UNCHANGED <<cfg, clock, cost, results, memo, bestHeap, savedValues,
                 exprCountTotal, stopped, progress, output, considered,
                 generated, evicted, levelHeaps, firstText>>

UiNext == Step \/ Tick \/ ClickRun \/ ClickStop \/ TimerFires \/ UiFinish

\* the page with an event loop that runs what is due: the timer's callback
\* when the timer has expired, and the synchronous enumeration to its end
SpecUI ==
  /\ UiInit
  /\ [][UiNext]_vars
  /\ WF_vars(Step)
  /\ WF_vars(TimerFires)
  /\ WF_vars(UiFinish)

\* a run has returned and a run with the same configuration returned before
TwoRunsSameConfig ==
  /\ pc.phase = "done"
  /\ output # NoOutput
  /\ ui.last # NoRun
  /\ ui.last.output # NoOutput
  /\ ui.last.cfg = cfg

\* C13 as stated: two runs with the same configuration return the same
\* records (err, v, expr) in the same order.
C13_Original ==
  TwoRunsSameConfig => output.results = ui.last.output.results

\* C13, amended: two runs with the same configuration in neither of which
\* the budget check fired return the same records (err, v, expr) in the
\* same order, the order of records of equal err included.
C13_SameOutputWithoutBudget ==
  (TwoRunsSameConfig /\ ~stopped /\ ~ui.last.stopped)
    => output.results = ui.last.output.results

\* C13 witness: two runs with the same configuration have returned, the
\* budget fired in neither, and the results hold two records of equal err.
C13_Witness ==
  /\ TwoRunsSameConfig
  /\ ~stopped /\ ~ui.last.stopped
  /\ \E a, b \in 1..Len(output.results) :
       a # b /\ FEq[output.results[a].err, output.results[b].err]

\* C20: after a click on Run that sets running = true the page comes back
\* to idle, with running = false and the Run button enabled, whether the
\* enumeration returns or throws or readConfig rejects the constants.
C20_ReturnsToIdle ==
  ui.running ~> (~ui.running /\ ~ui.runDisabled /\ ui.status = IdleText)

====
